---- MODULE Spec2Model ----
(***************************************************************************)
(* The SSE pipeline of the proxy: streamSSEResponse reads the upstream     *)
(* Google-format event stream and yields Anthropic-format events; the      *)
(* OpenAI converter maps the Anthropic stop reason to a finish reason.     *)
(*                                                                         *)
(* One upstream read delivers one complete `data:` line.  JavaScript's     *)
(* optional object fields are record fields that may be missing            *)
(* (Has(r, f)); null is the string "null"; a token count of 0 stands for   *)
(* both a missing field and an explicit 0, which `x || y` treats alike.    *)
(* A text is a sequence of one-character strings, so that trim() can be    *)
(* computed.  Time is in milliseconds and advances in steps of the         *)
(* supervisor's check interval.                                            *)
(***************************************************************************)
EXTENDS Integers, Sequences, FiniteSets, TLC

VARIABLES
    pc,                       \* where the generator is: reading, yielding, done, empty_error, timeout_error
    events,                   \* every event yielded so far, in order
    hasEmittedStart, blockIndex, currentBlockType, currentThinkingSignature,
    inputTokens, outputTokens, cacheReadTokens, stopReason,
    now,                      \* Date.now() - streamStartTime
    lastDataTime, chunkCount, warningLogged,
    readerCancelled,          \* reader.cancel() was called by the supervisor
    partCount,                \* history: upstream parts delivered so far
    finishLog,                \* history: the finishReason values delivered, in order
    promptSeen,               \* history: the last promptTokenCount the upstream reported
    lastArrival,              \* history: when the upstream last delivered data
    signatureCache,           \* the signature cache: its two maps, entries in insertion order
    clientClosed,             \* the client has gone and the upstream read was cancelled for it
    buffer,                   \* the decoded bytes of the line that is not yet complete
    wire,                     \* the bytes the upstream has still to deliver
    state,                    \* the state object of convertAnthropicStreamEventToOpenAI
    converted,                \* history: per converted event, the chunks the converter returned
    input, output,            \* the argument and the result of a converter call
    reconverted,              \* the result of converting that result back
    checkIntervals,           \* the supervisor intervals that are set and not cleared
    cleanup,                  \* the interval readWithTimeout.cleanup clears; 0 before the first read
    ngrokProcess,             \* the tunnel manager's child process, NoProcess for null
    currentTunnelUrl,         \* the tunnel manager's URL, NoUrl for null
    tunnelCalls               \* the startTunnel calls so far: promise, polling, child process

vars == <<pc, events, hasEmittedStart, blockIndex, currentBlockType,
          currentThinkingSignature, inputTokens, outputTokens, cacheReadTokens,
          stopReason, now, lastDataTime, chunkCount, warningLogged,
          readerCancelled, partCount, finishLog, promptSeen, lastArrival,
          signatureCache, clientClosed, buffer, wire, state, converted, input, output,
          reconverted, checkIntervals, cleanup, ngrokProcess, currentTunnelUrl, tunnelCalls>>

\* The state of the tunnel manager.
tunnelVars == <<ngrokProcess, currentTunnelUrl, tunnelCalls>>

\* What the generator never writes.
consumerVars == <<wire, state, converted, input, output, reconverted, tunnelVars>>

(***************************************************************************)
(* Bounds of the model.                                                    *)
(***************************************************************************)
MaxChunks == 2
MaxParts == 3
MaxTokens == 2
MaxTicks == 40
MaxEvents == 3
MaxLines == 2
MaxMessages == 3

(***************************************************************************)
(* Program constants.                                                      *)
(***************************************************************************)
CHECK_INTERVAL_MS == 5000
IDLE_WARNING_MS == 120000
STREAM_READ_TIMEOUT_MS == 180000
MIN_SIGNATURE_LENGTH == 8

Null == "null"

\* let ngrokProcess = null; the child processes are numbered from 1.
NoProcess == 0

\* let currentTunnelUrl = null; a URL is its scheme and its host.
NoUrl == <<>>

\* The module state of the tunnel manager when nothing has called it.
NoTunnel ==
    /\ ngrokProcess = NoProcess
    /\ currentTunnelUrl = NoUrl
    /\ tunnelCalls = <<>>

\* readWithTimeout up to its await: a new interval is set and
\* readWithTimeout.cleanup is the function that clears it.
StartRead(intervals, last) ==
    [checkIntervals |-> intervals \cup {last + 1}, cleanup |-> last + 1]

CleanupSkipped(intervals, last) == intervals

\* finally { readWithTimeout.cleanup() }
Cleanup(intervals, last) == intervals \ {last}

\* readWithTimeout has returned a value and the lines are handled: the
\* generator is suspended at a yield or has called readWithTimeout again.
AfterRead(intervals, last, yields) ==
    IF yields THEN [checkIntervals |-> Cleanup(intervals, last), cleanup |-> last]
    ELSE StartRead(Cleanup(intervals, last), last)

\* No generator is running.
NoRead ==
    /\ checkIntervals = {}
    /\ cleanup = 0

\* The generator awaits its first read.
FirstRead ==
    /\ checkIntervals = StartRead({}, 0).checkIntervals
    /\ cleanup = StartRead({}, 0).cleanup

\* {}
EmptyObject == [f \in {} |-> Null]

Has(r, f) == f \in DOMAIN r

Whitespace == {" ", "\n", "\t"}

IsEmptyText(text) == text = <<>>

\* !part.text || part.text.trim().length === 0
IsBlankText(text) == \A i \in 1..Len(text) : text[i] \in Whitespace

RECURSIVE Flatten(_)
Flatten(seqs) == IF seqs = <<>> THEN <<>> ELSE Head(seqs) \o Flatten(Tail(seqs))

RECURSIVE SeqsUpTo(_, _)
SeqsUpTo(S, n) == IF n = 0 THEN {<<>>}
                  ELSE LET shorter == SeqsUpTo(S, n - 1)
                       IN  shorter \cup {Append(q, x) : q \in {r \in shorter : Len(r) = n - 1}, x \in S}

(***************************************************************************)
(* The events streamSSEResponse yields.                                    *)
(***************************************************************************)
MessageStartNoCacheSplit(inTok, cacheTok) ==
    [type |-> "message_start",
     message |-> [type |-> "message", role |-> "assistant", content |-> <<>>, stop_reason |-> Null, stop_sequence |-> Null,
                  usage |-> [input_tokens |-> inTok,
                             output_tokens |-> 0,
                             cache_read_input_tokens |-> cacheTok,
                             cache_creation_input_tokens |-> 0]]]

MessageStart(inTok, cacheTok) ==
    [type |-> "message_start",
     message |-> [type |-> "message", role |-> "assistant", content |-> <<>>, stop_reason |-> Null, stop_sequence |-> Null,
                  usage |-> [input_tokens |-> inTok - cacheTok,
                             output_tokens |-> 0,
                             cache_read_input_tokens |-> cacheTok,
                             cache_creation_input_tokens |-> 0]]]

BlockStart(i, block) == [type |-> "content_block_start", index |-> i, content_block |-> block]

BlockDelta(i, delta) == [type |-> "content_block_delta", index |-> i, delta |-> delta]

BlockStop(i) == [type |-> "content_block_stop", index |-> i]

SignatureDelta(i, sig) == BlockDelta(i, [type |-> "signature_delta", signature |-> sig])

MessageDelta(reason, outTok, cacheTok) ==
    [type |-> "message_delta",
     delta |-> [stop_reason |-> IF reason # Null THEN reason ELSE "end_turn",
                stop_sequence |-> Null],
     usage |-> [output_tokens |-> outTok,
                cache_read_input_tokens |-> cacheTok,
                cache_creation_input_tokens |-> 0]]

MessageStop == [type |-> "message_stop"]

(***************************************************************************)
(* The signature cache: two maps, each a sequence of [key, signature]      *)
(* entries in insertion order.                                             *)
(***************************************************************************)
SIGNATURE_CACHE_MAX == 1024

EmptyCache == [byToolId |-> <<>>, byModelFamily |-> <<>>]

\* put(key, sig): a signature below the minimum length is rejected; on
\* overflow the least recently inserted entry goes.
Put(entries, key, sig) ==
    IF Len(sig) < MIN_SIGNATURE_LENGTH THEN entries
    ELSE IF \E k \in 1..Len(entries) : entries[k].key = key
         THEN [k \in 1..Len(entries) |->
                  IF entries[k].key = key THEN [key |-> key, signature |-> sig] ELSE entries[k]]
    ELSE LET added == Append(entries, [key |-> key, signature |-> sig])
         IN  IF Len(added) > SIGNATURE_CACHE_MAX THEN Tail(added) ELSE added

\* get(key): the signature stored under the key, "" without one.
Get(entries, key) ==
    IF \E k \in 1..Len(entries) : entries[k].key = key
    THEN entries[CHOOSE k \in 1..Len(entries) : entries[k].key = key].signature
    ELSE ""

cacheSignature(cache, toolUseId, signature) ==
    [cache EXCEPT !.byToolId = Put(@, toolUseId, signature)]

cacheThinkingSignature(cache, signature, modelFamily) ==
    [cache EXCEPT !.byModelFamily = Put(@, modelFamily, signature)]

\* The model the stream was requested for, and its family.
originalModel == "gemini-3-pro-high"

getModelFamily(model) ==
    IF model \in {"gemini-3-pro-high", "gemini-3-flash"} THEN "gemini"
    ELSE IF model \in {"claude-sonnet-4-5", "claude-opus-4-5-thinking"} THEN "claude"
    ELSE "unknown"

(***************************************************************************)
(* The handling of one upstream part.  g is the generator's state with the *)
(* events it has yielded: [blockIndex, currentBlockType,                   *)
(* currentThinkingSignature, stopReason, signatureCache, out].             *)
(***************************************************************************)
Yield(g, e) == [g EXCEPT !.out = Append(@, e)]

\* if (currentBlockType === 'thinking' && currentThinkingSignature) { yield signature_delta; ... = '' }
FlushSignature(g) ==
    IF g.currentBlockType = "thinking" /\ g.currentThinkingSignature # ""
    THEN [Yield(g, SignatureDelta(g.blockIndex, g.currentThinkingSignature))
            EXCEPT !.currentThinkingSignature = ""]
    ELSE g

CloseBlockKeepIndex(g) ==
    IF g.currentBlockType # Null THEN Yield(g, BlockStop(g.blockIndex)) ELSE g

\* if (currentBlockType !== null) { yield content_block_stop; blockIndex++ }
CloseBlock(g) ==
    IF g.currentBlockType # Null
    THEN [Yield(g, BlockStop(g.blockIndex)) EXCEPT !.blockIndex = @ + 1]
    ELSE g

NonEmptySignature(sig) == sig # ""

\* signature && signature.length >= MIN_SIGNATURE_LENGTH
ValidSignature(sig) == sig # "" /\ Len(sig) >= MIN_SIGNATURE_LENGTH

ThoughtPartFirstSignature(g, part) ==
    LET text == IF Has(part, "text") THEN part.text ELSE <<>>
        signature == IF Has(part, "thoughtSignature") THEN part.thoughtSignature ELSE ""
        opened == IF g.currentBlockType # "thinking"
                  THEN LET c == CloseBlock(g)
                       IN  Yield([c EXCEPT !.currentBlockType = "thinking",
                                           !.currentThinkingSignature = ""],
                                 BlockStart(c.blockIndex, [type |-> "thinking", thinking |-> <<>>]))
                  ELSE g
        signed == IF ValidSignature(signature) /\ opened.currentThinkingSignature = ""
                  THEN [opened EXCEPT !.currentThinkingSignature = signature,
                                      !.signatureCache =
                                          cacheThinkingSignature(@, signature,
                                                                 getModelFamily(originalModel))]
                  ELSE opened
    IN  Yield(signed, BlockDelta(signed.blockIndex, [type |-> "thinking_delta", thinking |-> text]))

ThoughtPart(g, part) ==
    LET text == IF Has(part, "text") THEN part.text ELSE <<>>
        signature == IF Has(part, "thoughtSignature") THEN part.thoughtSignature ELSE ""
        opened == IF g.currentBlockType # "thinking"
                  THEN LET c == CloseBlock(g)
                       IN  Yield([c EXCEPT !.currentBlockType = "thinking",
                                           !.currentThinkingSignature = ""],
                                 BlockStart(c.blockIndex, [type |-> "thinking", thinking |-> <<>>]))
                  ELSE g
        signed == IF ValidSignature(signature)
                  THEN [opened EXCEPT !.currentThinkingSignature = signature,
                                      !.signatureCache =
                                          cacheThinkingSignature(@, signature,
                                                                 getModelFamily(originalModel))]
                  ELSE opened
    IN  Yield(signed, BlockDelta(signed.blockIndex, [type |-> "thinking_delta", thinking |-> text]))

TextPartNoClose(g, part) ==
    IF IsBlankText(part.text) THEN g
    ELSE LET opened == IF g.currentBlockType # "text"
                       THEN LET c == FlushSignature(g)
                            IN  Yield([c EXCEPT !.currentBlockType = "text"],
                                      BlockStart(c.blockIndex, [type |-> "text", text |-> <<>>]))
                       ELSE g
         IN  Yield(opened, BlockDelta(opened.blockIndex, [type |-> "text_delta", text |-> part.text]))

TextPart(g, part) ==
    IF IsBlankText(part.text) THEN g
    ELSE LET opened == IF g.currentBlockType # "text"
                       THEN LET c == CloseBlock(FlushSignature(g))
                            IN  Yield([c EXCEPT !.currentBlockType = "text"],
                                      BlockStart(c.blockIndex, [type |-> "text", text |-> <<>>]))
                       ELSE g
         IN  Yield(opened, BlockDelta(opened.blockIndex, [type |-> "text_delta", text |-> part.text]))

\* part.functionCall.id || `toolu_${crypto.randomBytes(12).toString('hex')}`
ToolId(functionCall) ==
    IF Has(functionCall, "id") /\ functionCall.id # "" THEN functionCall.id ELSE "toolu_random"

FunctionCallPartUncached(g, part) ==
    LET functionCallSignature == IF Has(part, "thoughtSignature") THEN part.thoughtSignature ELSE ""
        c == CloseBlock(FlushSignature(g))
        toolId == ToolId(part.functionCall)
        plain == [type |-> "tool_use", id |-> toolId, name |-> part.functionCall.name, input |-> "{}"]
        toolUseBlock == IF ValidSignature(functionCallSignature)
                        THEN [type |-> "tool_use", id |-> toolId, name |-> part.functionCall.name,
                              input |-> "{}", thoughtSignature |-> functionCallSignature]
                        ELSE plain
        started == Yield([c EXCEPT !.currentBlockType = "tool_use", !.stopReason = "tool_use"],
                         BlockStart(c.blockIndex, toolUseBlock))
    IN  Yield(started, BlockDelta(started.blockIndex,
                                  [type |-> "input_json_delta",
                                   partial_json |-> IF Has(part.functionCall, "args")
                                                    THEN part.functionCall.args ELSE "{}"]))

FunctionCallPart(g, part) ==
    LET functionCallSignature == IF Has(part, "thoughtSignature") THEN part.thoughtSignature ELSE ""
        c == CloseBlock(FlushSignature(g))
        toolId == ToolId(part.functionCall)
        plain == [type |-> "tool_use", id |-> toolId, name |-> part.functionCall.name, input |-> "{}"]
        toolUseBlock == IF ValidSignature(functionCallSignature)
                        THEN [type |-> "tool_use", id |-> toolId, name |-> part.functionCall.name,
                              input |-> "{}", thoughtSignature |-> functionCallSignature]
                        ELSE plain
        cached == IF ValidSignature(functionCallSignature)
                  THEN [c EXCEPT !.signatureCache = cacheSignature(@, toolId, functionCallSignature)]
                  ELSE c
        started == Yield([cached EXCEPT !.currentBlockType = "tool_use", !.stopReason = "tool_use"],
                         BlockStart(c.blockIndex, toolUseBlock))
    IN  Yield(started, BlockDelta(started.blockIndex,
                                  [type |-> "input_json_delta",
                                   partial_json |-> IF Has(part.functionCall, "args")
                                                    THEN part.functionCall.args ELSE "{}"]))

InlineDataPart(g, part) ==
    LET c == CloseBlock(FlushSignature(g))
        started == Yield([c EXCEPT !.currentBlockType = "image"],
                         BlockStart(c.blockIndex,
                                    [type |-> "image",
                                     source |-> [type |-> "base64",
                                                 media_type |-> part.inlineData.mimeType,
                                                 data |-> part.inlineData.data]]))
    IN  [Yield(started, BlockStop(started.blockIndex))
           EXCEPT !.blockIndex = @ + 1, !.currentBlockType = Null]

ProcessPart(g, part) ==
    IF Has(part, "thought") /\ part.thought = TRUE THEN ThoughtPart(g, part)
    ELSE IF Has(part, "text") THEN TextPart(g, part)
    ELSE IF Has(part, "functionCall") THEN FunctionCallPart(g, part)
    ELSE IF Has(part, "inlineData") THEN InlineDataPart(g, part)
    ELSE g

RECURSIVE ProcessParts(_, _)
ProcessParts(g, parts) ==
    IF parts = <<>> THEN g
    ELSE ProcessParts(ProcessPart(g, Head(parts)), Tail(parts))

(***************************************************************************)
(* The handling of one `data:` line.                                       *)
(***************************************************************************)
\* usage.promptTokenCount || inputTokens
OrElse(value, fallback) == IF value # 0 THEN value ELSE fallback

ExtractUsage(chunk, counters) ==
    IF Has(chunk, "usageMetadata")
    THEN [inputTokens |-> OrElse(chunk.usageMetadata.promptTokenCount, counters.inputTokens),
          outputTokens |-> OrElse(chunk.usageMetadata.candidatesTokenCount, counters.outputTokens),
          cacheReadTokens |-> OrElse(chunk.usageMetadata.cachedContentTokenCount, counters.cacheReadTokens)]
    ELSE counters

StartOnAnyChunk(emitted, parts) == ~emitted

\* if (!hasEmittedStart && parts.length > 0)
StartsMessage(emitted, parts) == ~emitted /\ Len(parts) > 0

FinishReasonOverTool(chunk, reason) ==
    IF Has(chunk, "finishReason")
    THEN IF chunk.finishReason = "MAX_TOKENS" THEN "max_tokens"
         ELSE IF chunk.finishReason = "STOP" THEN "end_turn"
         ELSE reason
    ELSE reason

\* if (firstCandidate.finishReason && !stopReason) { MAX_TOKENS -> max_tokens; STOP -> end_turn }
CheckFinishReason(chunk, reason) ==
    IF Has(chunk, "finishReason") /\ reason = Null
    THEN IF chunk.finishReason = "MAX_TOKENS" THEN "max_tokens"
         ELSE IF chunk.finishReason = "STOP" THEN "end_turn"
         ELSE reason
    ELSE reason

\* The generator's state, nothing yielded.
Generator ==
    [blockIndex |-> blockIndex, currentBlockType |-> currentBlockType,
     currentThinkingSignature |-> currentThinkingSignature, stopReason |-> stopReason,
     signatureCache |-> signatureCache, out |-> <<>>]

\* The parsed line `chunk` handled from the token counters `counters`, the
\* flag `emitted` and the generator state g (with what it has yielded).
ProcessLineFrom(counters, emitted, g, chunk) ==
    LET usage == ExtractUsage(chunk, counters)
        starts == StartsMessage(emitted, chunk.parts)
        g0 == IF starts THEN Yield(g, MessageStart(usage.inputTokens, usage.cacheReadTokens))
              ELSE g
        g1 == ProcessParts(g0, chunk.parts)
    IN  [usage |-> usage, starts |-> starts,
         g |-> [g1 EXCEPT !.stopReason = CheckFinishReason(chunk, g1.stopReason)]]

\* The generator's state after the line, with the events the line made it yield.
ProcessLine(chunk) ==
    ProcessLineFrom([inputTokens |-> inputTokens, outputTokens |-> outputTokens,
                     cacheReadTokens |-> cacheReadTokens],
                    hasEmittedStart, Generator, chunk)

(***************************************************************************)
(* The read loop's line buffer.  A text is a sequence of characters.  A    *)
(* JSON document is abbreviated to three characters and JSON.parse is the  *)
(* table JsonDocuments; any other text makes it throw.                     *)
(***************************************************************************)
\* text.split('\n'): the segments between the newlines, at least one.
RECURSIVE Split(_)
Split(text) ==
    IF \A i \in 1..Len(text) : text[i] # "\n" THEN <<text>>
    ELSE LET i == CHOOSE i \in 1..Len(text) :
                     text[i] = "\n" /\ \A j \in 1..(i - 1) : text[j] # "\n"
         IN  <<SubSeq(text, 1, i - 1)>> \o Split(SubSeq(text, i + 1, Len(text)))

BufferEmptied(segments) == <<>>

\* buffer = lines.pop() || ''
BufferAfter(segments) == segments[Len(segments)]

\* the lines left after lines.pop()
CompleteLines(segments) == SubSeq(segments, 1, Len(segments) - 1)

RECURSIVE Trim(_)
Trim(text) ==
    IF text = <<>> THEN text
    ELSE IF Head(text) \in Whitespace THEN Trim(Tail(text))
    ELSE IF text[Len(text)] \in Whitespace THEN Trim(SubSeq(text, 1, Len(text) - 1))
    ELSE text

\* line.startsWith('data:')
StartsWithData(line) == Len(line) >= 5 /\ SubSeq(line, 1, 5) = <<"d", "a", "t", "a", ":">>

\* Signatures the upstream may send.
ShortSignature == "sig4"
LongSignature == "signature-0123456789"

JsonDocuments ==
    {[text |-> <<"{", "T", "}">>, value |-> [parts |-> <<[text |-> <<"a">>]>>]],
     [text |-> <<"{", "H", "}">>,
      value |-> [parts |-> <<[thought |-> TRUE, text |-> <<"t">>, thoughtSignature |-> LongSignature]>>]],
     [text |-> <<"{", "U", "}">>,
      value |-> [parts |-> <<>>, finishReason |-> "MAX_TOKENS",
                 usageMetadata |-> [promptTokenCount |-> 2, candidatesTokenCount |-> 1,
                                    cachedContentTokenCount |-> 1]]]}

\* JSON.parse(jsonText) returns
ParsesAsJson(jsonText) == \E d \in JsonDocuments : d.text = jsonText

JsonParse(jsonText) == (CHOOSE d \in JsonDocuments : d.text = jsonText).value

ProcessTextBadLineStops(r, line) ==
    IF ~StartsWithData(line) THEN r
    ELSE LET jsonText == Trim(SubSeq(line, 6, Len(line))) IN
         IF jsonText = <<>> THEN r
         ELSE IF ~ParsesAsJson(jsonText) THEN [r EXCEPT !.g.stopReason = "end_turn"]
         ELSE LET chunk == JsonParse(jsonText)
                  after == ProcessLineFrom(r.counters, r.emitted, r.g, chunk)
              IN  [counters |-> after.usage,
                   emitted |-> (r.emitted \/ after.starts),
                   g |-> after.g,
                   parts |-> r.parts + Len(chunk.parts),
                   finishLog |-> IF Has(chunk, "finishReason")
                                 THEN Append(r.finishLog, chunk.finishReason) ELSE r.finishLog,
                   promptSeen |-> IF Has(chunk, "usageMetadata")
                                     /\ chunk.usageMetadata.promptTokenCount # 0
                                  THEN chunk.usageMetadata.promptTokenCount ELSE r.promptSeen]

\* One line of the buffer: r is [counters, emitted, g, parts, finishLog, promptSeen].
ProcessText(r, line) ==
    IF ~StartsWithData(line) THEN r
    ELSE LET jsonText == Trim(SubSeq(line, 6, Len(line))) IN
         IF jsonText = <<>> \/ ~ParsesAsJson(jsonText) THEN r
         ELSE LET chunk == JsonParse(jsonText)
                  after == ProcessLineFrom(r.counters, r.emitted, r.g, chunk)
              IN  [counters |-> after.usage,
                   emitted |-> (r.emitted \/ after.starts),
                   g |-> after.g,
                   parts |-> r.parts + Len(chunk.parts),
                   finishLog |-> IF Has(chunk, "finishReason")
                                 THEN Append(r.finishLog, chunk.finishReason) ELSE r.finishLog,
                   promptSeen |-> IF Has(chunk, "usageMetadata")
                                     /\ chunk.usageMetadata.promptTokenCount # 0
                                  THEN chunk.usageMetadata.promptTokenCount ELSE r.promptSeen]

\* for (const line of lines) ...
RECURSIVE ProcessTexts(_, _)
ProcessTexts(r, lines) ==
    IF lines = <<>> THEN r
    ELSE ProcessTexts(ProcessText(r, Head(lines)), Tail(lines))

ThrowsEmptyNever(emitted) == FALSE

\* if (!hasEmittedStart) throw new EmptyResponseError(...)
ThrowsEmpty(emitted) == ~emitted

EndEventsNoFlush(blockType, signature, index, reason, outTok, cacheTok) ==
    (IF blockType # Null THEN <<BlockStop(index)>> ELSE <<>>)
    \o <<MessageDelta(reason, outTok, cacheTok), MessageStop>>

\* What the generator yields after the read loop when it has emitted message_start.
EndEvents(blockType, signature, index, reason, outTok, cacheTok) ==
    (IF blockType # Null
     THEN (IF blockType = "thinking" /\ signature # ""
           THEN <<SignatureDelta(index, signature)>> ELSE <<>>)
          \o <<BlockStop(index)>>
     ELSE <<>>)
    \o <<MessageDelta(reason, outTok, cacheTok), MessageStop>>

LastDataTimeKept(time, last) == last

\* lastDataTime = Date.now() on a read that returned a value
LastDataTimeAfterRead(time, last) == time

(***************************************************************************)
(* What the upstream may send.                                             *)
(***************************************************************************)
ThoughtParts == {[thought |-> TRUE, text |-> <<"t">>],
                 [thought |-> TRUE, text |-> <<"t">>, thoughtSignature |-> LongSignature]}
TextParts == {[text |-> <<"a">>]}
BlankParts == {[text |-> <<>>], [text |-> <<" ">>]}
FunctionCallParts == {[functionCall |-> [id |-> "call_1", name |-> "get_weather", args |-> "{\"city\":\"Paris\"}"]]}
InlineDataParts == {[inlineData |-> [mimeType |-> "image/png", data |-> "AAAA"]]}

FinishReasons == {"STOP", "MAX_TOKENS", "SAFETY", "RECITATION"}

Chunks(Parts, Reasons, Usages) ==
    LET partSeqs == SeqsUpTo(Parts, MaxParts)
        plain == {[parts |-> ps] : ps \in partSeqs}
        finished == {[parts |-> ps, finishReason |-> f] : ps \in partSeqs, f \in Reasons}
        counted == {[parts |-> ps, usageMetadata |-> u] : ps \in partSeqs, u \in Usages}
    IN  plain \cup finished \cup counted

\* Every block shape; a line may carry a STOP or a usageMetadata.
BlockChunks == Chunks(ThoughtParts \cup TextParts \cup {[text |-> <<>>]} \cup FunctionCallParts \cup InlineDataParts,
                      {"STOP"},
                      {[promptTokenCount |-> 2, candidatesTokenCount |-> 1, cachedContentTokenCount |-> 1]})

\* Every finishReason, with or without a tool call.
StopChunks == Chunks(TextParts \cup FunctionCallParts, FinishReasons, {})

\* Every usageMetadata.
UsageChunks == Chunks(TextParts,
                      {},
                      [promptTokenCount : 0..MaxTokens, candidatesTokenCount : 0..1,
                       cachedContentTokenCount : 0..MaxTokens])

\* A stream whose timing matters.
IdleChunks == Chunks({[thought |-> TRUE, text |-> <<"t">>, thoughtSignature |-> LongSignature]} \cup TextParts,
                     {}, {})

\* A stream that a cancellation may end inside a thinking, a text or a tool_use block.
CancelChunks == Chunks(ThoughtParts \cup TextParts \cup FunctionCallParts, {"STOP"}, {})

DataPrefix == <<"d", "a", "t", "a", ":">>

\* The lines of a response body: data lines with and without a space after
\* the colon, the blank line that ends an SSE event, a data line whose JSON
\* is cut, a comment line.
WireLines ==
    {DataPrefix \o <<" ", "{", "T", "}", "\n">>,
     DataPrefix \o <<"{", "H", "}", "\n">>,
     DataPrefix \o <<"{", "U", "}", "\n">>,
     <<"\n">>,
     DataPrefix \o <<"{", "T", "\n">>,
     <<":", "k", "\n">>}

\* What may follow the last newline of a body.
WireTails == {<<>>, DataPrefix \o <<"{", "T", "}">>}

\* Response bodies of up to MaxLines lines.
Bodies == {Flatten(lines) \o tail : lines \in SeqsUpTo(WireLines, MaxLines), tail \in WireTails}

\* Tool calls with and without an upstream id, arguments and a signature.
SignedCallParts ==
    {[functionCall |-> [id |-> "call_1", name |-> "get_weather", args |-> "{\"city\":\"Paris\"}"],
      thoughtSignature |-> LongSignature],
     [functionCall |-> [id |-> "call_2", name |-> "get_weather", args |-> "{\"city\":\"Rome\"}"]],
     [functionCall |-> [name |-> "get_time"], thoughtSignature |-> ShortSignature],
     [functionCall |-> [name |-> "get_time", args |-> "{\"zone\":\"UTC\"}"],
      thoughtSignature |-> LongSignature]}

ToolChunks == Chunks(TextParts \cup SignedCallParts, {}, {})

\* A stream for an OpenAI client: thinking, two texts, a tool call, a stop.
OpenAIChunks == Chunks({[thought |-> TRUE, text |-> <<"t">>, thoughtSignature |-> LongSignature],
                        [text |-> <<"a">>], [text |-> <<"b">>]} \cup FunctionCallParts,
                       {"MAX_TOKENS"}, {})

(***************************************************************************)
(* The generator.                                                          *)
(***************************************************************************)
Init ==
    /\ pc = "reading"
    /\ events = <<>>
    /\ hasEmittedStart = FALSE
    /\ blockIndex = 0
    /\ currentBlockType = Null
    /\ currentThinkingSignature = ""
    /\ inputTokens = 0
    /\ outputTokens = 0
    /\ cacheReadTokens = 0
    /\ stopReason = Null
    /\ now = 0
    /\ lastDataTime = 0
    /\ chunkCount = 0
    /\ warningLogged = FALSE
    /\ readerCancelled = FALSE
    /\ partCount = 0
    /\ finishLog = <<>>
    /\ promptSeen = 0
    /\ lastArrival = 0
    /\ signatureCache = EmptyCache
    /\ clientClosed = FALSE
    /\ buffer = <<>>
    /\ wire = <<>>
    /\ state = EmptyObject
    /\ converted = <<>>
    /\ input = Null
    /\ output = Null
    /\ reconverted = Null
    /\ FirstRead
    /\ NoTunnel

\* readWithTimeout returns a value: one `data:` line of the upstream.
ReadChunk(Upstream) ==
    /\ pc = "reading"
    /\ chunkCount < MaxChunks
    /\ \E chunk \in Upstream :
         /\ partCount + Len(chunk.parts) <= MaxParts
         /\ LET r == ProcessLine(chunk) IN
              /\ events' = events \o r.g.out
              /\ hasEmittedStart' = (hasEmittedStart \/ r.starts)
              /\ blockIndex' = r.g.blockIndex
              /\ currentBlockType' = r.g.currentBlockType
              /\ currentThinkingSignature' = r.g.currentThinkingSignature
              /\ stopReason' = r.g.stopReason
              /\ signatureCache' = r.g.signatureCache
              /\ inputTokens' = r.usage.inputTokens
              /\ outputTokens' = r.usage.outputTokens
              /\ cacheReadTokens' = r.usage.cacheReadTokens
              /\ pc' = IF r.g.out # <<>> THEN "yielding" ELSE "reading"
              /\ checkIntervals' = AfterRead(checkIntervals, cleanup, r.g.out # <<>>).checkIntervals
              /\ cleanup' = AfterRead(checkIntervals, cleanup, r.g.out # <<>>).cleanup
         /\ partCount' = partCount + Len(chunk.parts)
         /\ finishLog' = IF Has(chunk, "finishReason") THEN Append(finishLog, chunk.finishReason)
                         ELSE finishLog
         /\ promptSeen' = IF Has(chunk, "usageMetadata") /\ chunk.usageMetadata.promptTokenCount # 0
                          THEN chunk.usageMetadata.promptTokenCount ELSE promptSeen
    /\ lastDataTime' = LastDataTimeAfterRead(now, lastDataTime)
    /\ lastArrival' = now
    /\ chunkCount' = chunkCount + 1
    /\ warningLogged' = FALSE
    /\ UNCHANGED <<now, readerCancelled, clientClosed, buffer, consumerVars>>

\* readWithTimeout returns a value: the next bytes of the body, however many.
ReadBytes ==
    /\ pc = "reading"
    /\ chunkCount < MaxChunks
    /\ wire # <<>>
    /\ \E n \in 1..Len(wire) :
         LET value == SubSeq(wire, 1, n)
             segments == Split(buffer \o value)
             r == ProcessTexts([counters |-> [inputTokens |-> inputTokens,
                                              outputTokens |-> outputTokens,
                                              cacheReadTokens |-> cacheReadTokens],
                                emitted |-> hasEmittedStart, g |-> Generator,
                                parts |-> partCount, finishLog |-> finishLog,
                                promptSeen |-> promptSeen],
                               CompleteLines(segments))
         IN  /\ wire' = SubSeq(wire, n + 1, Len(wire))
             /\ buffer' = BufferAfter(segments)
             /\ events' = events \o r.g.out
             /\ hasEmittedStart' = r.emitted
             /\ blockIndex' = r.g.blockIndex
             /\ currentBlockType' = r.g.currentBlockType
             /\ currentThinkingSignature' = r.g.currentThinkingSignature
             /\ stopReason' = r.g.stopReason
             /\ signatureCache' = r.g.signatureCache
             /\ inputTokens' = r.counters.inputTokens
             /\ outputTokens' = r.counters.outputTokens
             /\ cacheReadTokens' = r.counters.cacheReadTokens
             /\ pc' = IF r.g.out # <<>> THEN "yielding" ELSE "reading"
             /\ checkIntervals' = AfterRead(checkIntervals, cleanup, r.g.out # <<>>).checkIntervals
             /\ cleanup' = AfterRead(checkIntervals, cleanup, r.g.out # <<>>).cleanup
             /\ partCount' = r.parts
             /\ finishLog' = r.finishLog
             /\ promptSeen' = r.promptSeen
    /\ lastDataTime' = LastDataTimeAfterRead(now, lastDataTime)
    /\ lastArrival' = now
    /\ chunkCount' = chunkCount + 1
    /\ warningLogged' = FALSE
    /\ UNCHANGED <<now, readerCancelled, clientClosed, state, converted, input, output,
                   reconverted, tunnelVars>>

\* The consumer has taken the events of the line; the generator reads again.
Resume ==
    /\ pc = "yielding"
    /\ pc' = "reading"
    /\ checkIntervals' = StartRead(checkIntervals, cleanup).checkIntervals
    /\ cleanup' = StartRead(checkIntervals, cleanup).cleanup
    /\ UNCHANGED <<events, hasEmittedStart, blockIndex, currentBlockType,
                   currentThinkingSignature, inputTokens, outputTokens, cacheReadTokens,
                   stopReason, now, lastDataTime, chunkCount, warningLogged,
                   readerCancelled, partCount, finishLog, promptSeen, lastArrival,
                   signatureCache, clientClosed, buffer, consumerVars>>

\* The read loop has ended with done: what follows the loop.
Complete ==
    /\ checkIntervals' = Cleanup(checkIntervals, cleanup)
    /\ cleanup' = cleanup
    /\ IF ThrowsEmpty(hasEmittedStart)
       THEN /\ pc' = "empty_error"
            /\ events' = events
       ELSE /\ pc' = "done"
            /\ events' = events \o EndEvents(currentBlockType, currentThinkingSignature,
                                             blockIndex, stopReason, outputTokens, cacheReadTokens)
    /\ UNCHANGED <<hasEmittedStart, blockIndex, currentBlockType,
                   currentThinkingSignature, inputTokens, outputTokens, cacheReadTokens,
                   stopReason, lastDataTime, chunkCount,
                   partCount, finishLog, promptSeen, lastArrival,
                   signatureCache, buffer, consumerVars>>

\* readWithTimeout returns done: the upstream has closed the stream.
ReadDone ==
    /\ pc = "reading"
    /\ Complete
    /\ UNCHANGED <<now, warningLogged, readerCancelled, clientClosed>>

\* The client has gone while a read is pending and the upstream read is
\* cancelled for it: the pending read resolves with done, as at the end of
\* the upstream, and the generator resumes after the loop.
ClientCancel ==
    /\ pc = "reading"
    /\ ~clientClosed
    /\ clientClosed' = TRUE
    /\ Complete
    /\ UNCHANGED <<now, warningLogged, readerCancelled>>

\* The upstream closes the stream when it has delivered the body.
UpstreamEnds ==
    /\ wire = <<>>
    /\ ReadDone

\* The supervisor's interval fires while a read is pending.
IdleCheck ==
    /\ pc = "reading"
    /\ cleanup \in checkIntervals
    /\ now < MaxTicks * CHECK_INTERVAL_MS
    /\ now' = now + CHECK_INTERVAL_MS
    /\ UNCHANGED clientClosed
    /\ LET idleTime == now' - lastDataTime IN
         /\ warningLogged' = (warningLogged \/ idleTime > IDLE_WARNING_MS)
         /\ IF idleTime > STREAM_READ_TIMEOUT_MS
            THEN /\ readerCancelled' = TRUE
                 \* reader.cancel() and then reject(): Promise.race settles with
                 \* whichever promise settles first.  Cancelling a reader of a
                 \* WHATWG stream fulfils its pending read with done at once,
                 \* before reject() runs; another reader may settle it later.
                 /\ \/ /\ pc' = "timeout_error"
                       \* clearInterval(checkInterval), reject(), then the finally
                       /\ checkIntervals' = Cleanup(checkIntervals \ {cleanup}, cleanup)
                       /\ cleanup' = cleanup
                       /\ UNCHANGED <<events, hasEmittedStart, blockIndex, currentBlockType,
                                      currentThinkingSignature, inputTokens, outputTokens,
                                      cacheReadTokens, stopReason, lastDataTime, chunkCount,
                                      partCount, finishLog, promptSeen, lastArrival,
                                      signatureCache, buffer, consumerVars>>
                    \/ Complete
            ELSE UNCHANGED <<pc, events, hasEmittedStart, blockIndex, currentBlockType,
                             currentThinkingSignature, inputTokens, outputTokens,
                             cacheReadTokens, stopReason, lastDataTime, chunkCount,
                             readerCancelled, partCount, finishLog, promptSeen, lastArrival,
                             signatureCache, buffer, consumerVars, checkIntervals, cleanup>>

\* The check interval passes while the generator is suspended at a yield: no
\* supervisor exists between two reads.
ConsumerWait ==
    /\ pc = "yielding"
    /\ now < MaxTicks * CHECK_INTERVAL_MS
    /\ now' = now + CHECK_INTERVAL_MS
    /\ UNCHANGED <<pc, events, hasEmittedStart, blockIndex, currentBlockType,
                   currentThinkingSignature, inputTokens, outputTokens, cacheReadTokens,
                   stopReason, lastDataTime, chunkCount, warningLogged,
                   readerCancelled, partCount, finishLog, promptSeen, lastArrival,
                   signatureCache, clientClosed, buffer, consumerVars, checkIntervals,
                   cleanup>>

\* Streams of every block shape; no idle period reaches the supervisor's limit.
Next == ReadChunk(BlockChunks) \/ Resume \/ ReadDone

Spec == Init /\ [][Next]_vars

NextStop == ReadChunk(StopChunks) \/ Resume \/ ReadDone

SpecStop == Init /\ [][NextStop]_vars

NextUsage == ReadChunk(UsageChunks) \/ Resume \/ ReadDone

SpecUsage == Init /\ [][NextUsage]_vars

\* Every usageMetadata in which the cached tokens are part of the prompt.
CachedChunks == Chunks(TextParts,
                       {},
                       {u \in [promptTokenCount : 0..MaxTokens, candidatesTokenCount : 0..1,
                               cachedContentTokenCount : 0..MaxTokens] :
                          u.cachedContentTokenCount <= u.promptTokenCount})

NextCached == ReadChunk(CachedChunks) \/ Resume \/ ReadDone

SpecCached == Init /\ [][NextCached]_vars

NextIdle == ReadChunk(IdleChunks) \/ Resume \/ ReadDone \/ IdleCheck \/ ConsumerWait

SpecIdle == Init /\ [][NextIdle]_vars

\* The generator is given a response whose body arrives in pieces.
InitWire ==
    /\ pc = "reading"
    /\ events = <<>>
    /\ hasEmittedStart = FALSE
    /\ blockIndex = 0
    /\ currentBlockType = Null
    /\ currentThinkingSignature = ""
    /\ inputTokens = 0
    /\ outputTokens = 0
    /\ cacheReadTokens = 0
    /\ stopReason = Null
    /\ now = 0
    /\ lastDataTime = 0
    /\ chunkCount = 0
    /\ warningLogged = FALSE
    /\ readerCancelled = FALSE
    /\ partCount = 0
    /\ finishLog = <<>>
    /\ promptSeen = 0
    /\ lastArrival = 0
    /\ signatureCache = EmptyCache
    /\ clientClosed = FALSE
    /\ buffer = <<>>
    /\ input \in Bodies
    /\ wire = input
    /\ state = EmptyObject
    /\ converted = <<>>
    /\ output = Null
    /\ reconverted = Null
    /\ FirstRead
    /\ NoTunnel

NextWire == ReadBytes \/ Resume \/ UpstreamEnds

SpecWire == InitWire /\ [][NextWire]_vars

\* A stream whose client may go away.
NextCancel == ReadChunk(CancelChunks) \/ Resume \/ ReadDone \/ ClientCancel

SpecCancel == Init /\ [][NextCancel]_vars

OtherSignature == "signature-9876543210"

\* Thought parts whose text tells which signature they carry: a long one,
\* another long one, a short one, none.
SignatureThoughts ==
    {[thought |-> TRUE, text |-> <<"1">>, thoughtSignature |-> LongSignature],
     [thought |-> TRUE, text |-> <<"2">>, thoughtSignature |-> OtherSignature],
     [thought |-> TRUE, text |-> <<"s">>, thoughtSignature |-> ShortSignature],
     [thought |-> TRUE, text |-> <<"n">>]}

\* Thinking blocks that end in every way: text, functionCall, inlineData, end
\* of the stream.
SignatureChunks ==
    Chunks(SignatureThoughts \cup TextParts \cup FunctionCallParts \cup InlineDataParts, {}, {})

NextSignature == ReadChunk(SignatureChunks) \/ Resume \/ ReadDone

SpecSignature == Init /\ [][NextSignature]_vars

\* One character below the minimum length, and exactly the minimum length.
SevenSignature == "1234567"
EightSignature == "12345678"

\* Thought and functionCall parts with signatures around the minimum length.
ShortSignatureParts ==
    {[thought |-> TRUE, text |-> <<"s">>, thoughtSignature |-> ShortSignature],
     [thought |-> TRUE, text |-> <<"7">>, thoughtSignature |-> SevenSignature],
     [thought |-> TRUE, text |-> <<"8">>, thoughtSignature |-> EightSignature],
     [functionCall |-> [name |-> "get_time"], thoughtSignature |-> ShortSignature],
     [functionCall |-> [id |-> "call_7", name |-> "get_weather"],
      thoughtSignature |-> SevenSignature],
     [functionCall |-> [id |-> "call_8", name |-> "get_weather"],
      thoughtSignature |-> EightSignature]}

ShortSignatureChunks == Chunks(ShortSignatureParts \cup TextParts, {}, {})

NextShort == ReadChunk(ShortSignatureChunks) \/ Resume \/ ReadDone

SpecShort == Init /\ [][NextShort]_vars

\* Non-thought parts whose text is empty or only whitespace.
WhitespaceParts == BlankParts \cup {[text |-> <<"\n", "\t">>]}

\* Lines that open a thinking block with a pending signature, a text block or
\* a tool_use block.
OpeningChunks ==
    Chunks({[thought |-> TRUE, text |-> <<"t">>, thoughtSignature |-> LongSignature]}
           \cup TextParts \cup FunctionCallParts, {"STOP"}, {})

\* Lines that carry nothing but blank text parts.
BlankChunks == {[parts |-> ps] : ps \in SeqsUpTo(WhitespaceParts, MaxParts) \ {<<>>}}

\* A line of blank text parts arrives.
ReadBlank == ReadChunk(BlankChunks)

NextBlank == ReadChunk(OpeningChunks) \/ ReadBlank \/ Resume \/ ReadDone

SpecBlank == Init /\ [][NextBlank]_vars

\* functionCall parts with and without args, alone and beside a text field.
CallParts ==
    {[functionCall |-> [id |-> "call_1", name |-> "get_weather", args |-> "{\"city\":\"Paris\"}"]],
     [functionCall |-> [id |-> "call_2", name |-> "get_time"]],
     [text |-> <<>>,
      functionCall |-> [id |-> "call_3", name |-> "get_weather", args |-> "{\"city\":\"Rome\"}"]],
     [text |-> <<"a">>, functionCall |-> [id |-> "call_4", name |-> "get_time"]]}

\* Lines of one functionCall part.
CallChunks == {[parts |-> <<part>>] : part \in CallParts}

\* A line with one functionCall part arrives.
ReadCall == ReadChunk(CallChunks)

NextCall == ReadChunk(OpeningChunks) \/ ReadCall \/ Resume \/ ReadDone

SpecCall == Init /\ [][NextCall]_vars

(***************************************************************************)
(* The Anthropic-to-OpenAI mapping of the stop reason.                     *)
(***************************************************************************)
StreamFinishReasonNoLength(stop_reason) ==
    IF stop_reason = "tool_use" THEN "tool_calls" ELSE "stop"

\* convertAnthropicStreamEventToOpenAI, case 'message_delta'
StreamFinishReason(stop_reason) ==
    IF stop_reason = "tool_use" THEN "tool_calls"
    ELSE IF stop_reason = "max_tokens" THEN "length"
    ELSE "stop"

\* convertAnthropicToOpenAI
NonStreamFinishReason(stop_reason) ==
    IF stop_reason = "tool_use" THEN "tool_calls"
    ELSE IF stop_reason = "max_tokens" THEN "length"
    ELSE IF stop_reason = "stop_sequence" THEN "stop"
    ELSE "stop"

(***************************************************************************)
(* convertAnthropicStreamEventToOpenAI.  The state object starts as {} and *)
(* gains the fields id, fingerprint, toolCalls and inThinking.  A call     *)
(* returns [state, chunks]: the state object after the call and the chunk  *)
(* it returned, <<>> for null.  randomId and randomFp are what             *)
(* crypto.randomBytes would give the call.  `created` is left out.         *)
(***************************************************************************)
\* obj[field] = value
With(obj, field, value) ==
    [f \in DOMAIN obj \cup {field} |-> IF f = field THEN value ELSE obj[f]]

\* if (!state.id) state.id = `chatcmpl-${...}`
StateWithId(s, randomId) ==
    IF Has(s, "id") THEN s ELSE With(s, "id", "chatcmpl-" \o randomId)

FingerprintFresh(s, randomFp) == "fp_" \o randomFp

\* state.fingerprint || `fp_${...}`
Fingerprint(s, randomFp) ==
    IF Has(s, "fingerprint") THEN s.fingerprint ELSE "fp_" \o randomFp

BaseChunk(s, model) ==
    [id |-> s.id,
     object |-> "chat.completion.chunk",
     model |-> model,
     system_fingerprint |-> s.fingerprint,
     choices |-> <<[index |-> 0, delta |-> EmptyObject, finish_reason |-> Null]>>]

WithDelta(chunk, delta) == [chunk EXCEPT !.choices[1].delta = delta]

InThinking(s) == Has(s, "inThinking") /\ s.inThinking

OnMessageStartNoRole(s, baseChunk) ==
    [state |-> s, chunks |-> <<WithDelta(baseChunk, [content |-> <<>>])>>]

\* case 'message_start'
OnMessageStart(s, baseChunk) ==
    [state |-> s, chunks |-> <<WithDelta(baseChunk, [role |-> "assistant", content |-> <<>>])>>]

StartToolCallIndexZero(block, s, baseChunk) ==
    LET calls == IF Has(s, "toolCalls") THEN s.toolCalls ELSE <<>>
    IN  [state |-> With(s, "toolCalls",
                        Append(calls, [id |-> block.id, name |-> block.name, arguments |-> ""])),
         chunks |-> <<WithDelta(baseChunk,
                        [tool_calls |-> <<[index |-> 0,
                                           id |-> block.id,
                                           type |-> "function",
                                           function |-> [name |-> block.name,
                                                         arguments |-> ""]]>>])>>]

\* content_block_start of a tool_use block
StartToolCall(block, s, baseChunk) ==
    LET calls == IF Has(s, "toolCalls") THEN s.toolCalls ELSE <<>>
        toolIndex == Len(calls)
    IN  [state |-> With(s, "toolCalls",
                        Append(calls, [id |-> block.id, name |-> block.name, arguments |-> ""])),
         chunks |-> <<WithDelta(baseChunk,
                        [tool_calls |-> <<[index |-> toolIndex,
                                           id |-> block.id,
                                           type |-> "function",
                                           function |-> [name |-> block.name,
                                                         arguments |-> ""]]>>])>>]

OnContentBlockStartThinkingUnmarked(anthropicEvent, s, baseChunk) ==
    LET block == anthropicEvent.content_block IN
    IF block.type = "tool_use" THEN StartToolCall(block, s, baseChunk)
    ELSE [state |-> s, chunks |-> <<>>]

\* case 'content_block_start'
OnContentBlockStart(anthropicEvent, s, baseChunk) ==
    LET block == anthropicEvent.content_block IN
    IF block.type = "text" THEN [state |-> s, chunks |-> <<>>]
    ELSE IF block.type = "tool_use" THEN StartToolCall(block, s, baseChunk)
    ELSE IF block.type = "thinking"
    THEN [state |-> With(s, "inThinking", TRUE), chunks |-> <<>>]
    ELSE [state |-> s, chunks |-> <<>>]

\* case 'content_block_delta'
OnContentBlockDelta(anthropicEvent, s, baseChunk) ==
    LET delta == anthropicEvent.delta IN
    IF InThinking(s) THEN [state |-> s, chunks |-> <<>>]
    ELSE IF delta.type = "text_delta"
    THEN [state |-> s, chunks |-> <<WithDelta(baseChunk, [content |-> delta.text])>>]
    ELSE IF delta.type = "input_json_delta"
    THEN LET \* (state.toolCalls?.length || 1) - 1; the array is 0-based
             toolIndex == (IF Has(s, "toolCalls") /\ Len(s.toolCalls) # 0
                           THEN Len(s.toolCalls) ELSE 1) - 1
             appended == IF Has(s, "toolCalls") /\ toolIndex + 1 \in DOMAIN s.toolCalls
                         THEN [s EXCEPT !.toolCalls[toolIndex + 1].arguments = @ \o delta.partial_json]
                         ELSE s
         IN  [state |-> appended,
              chunks |-> <<WithDelta(baseChunk,
                             [tool_calls |-> <<[index |-> toolIndex,
                                                function |-> [arguments |-> delta.partial_json]]>>])>>]
    ELSE [state |-> s, chunks |-> <<>>]

OnContentBlockStopKeepsThinking(s) == [state |-> s, chunks |-> <<>>]

\* case 'content_block_stop'
OnContentBlockStop(s) ==
    [state |-> IF InThinking(s) THEN With(s, "inThinking", FALSE) ELSE s, chunks |-> <<>>]

\* case 'message_delta'
OnMessageDelta(anthropicEvent, baseChunk) ==
    LET finished == [baseChunk EXCEPT
                        !.choices[1].finish_reason = StreamFinishReason(anthropicEvent.delta.stop_reason)]
        \* anthropicEvent.usage.input_tokens || 0, ...output_tokens || 0
        prompt == IF Has(anthropicEvent.usage, "input_tokens")
                  THEN anthropicEvent.usage.input_tokens ELSE 0
        completion == IF Has(anthropicEvent.usage, "output_tokens")
                      THEN anthropicEvent.usage.output_tokens ELSE 0
    IN  IF Has(anthropicEvent, "usage")
        THEN With(finished, "usage", [prompt_tokens |-> prompt,
                                      completion_tokens |-> completion,
                                      total_tokens |-> prompt + completion])
        ELSE finished

\* case 'error'
OnError(anthropicEvent) ==
    LET error == IF Has(anthropicEvent, "error") THEN anthropicEvent.error ELSE EmptyObject
    IN  [error |-> [message |-> IF Has(error, "message") THEN error.message ELSE "Unknown error",
                    type |-> IF Has(error, "type") THEN error.type ELSE "api_error",
                    code |-> IF Has(error, "code") THEN error.code ELSE "internal_error"]]

convertAnthropicStreamEventToOpenAI(anthropicEvent, model, s, randomId, randomFp) ==
    LET identified == StateWithId(s, randomId)
        s1 == With(identified, "fingerprint", Fingerprint(identified, randomFp))
        baseChunk == BaseChunk(s1, model)
        type == anthropicEvent.type
    IN  IF type = "message_start" THEN OnMessageStart(s1, baseChunk)
        ELSE IF type = "content_block_start" THEN OnContentBlockStart(anthropicEvent, s1, baseChunk)
        ELSE IF type = "content_block_delta" THEN OnContentBlockDelta(anthropicEvent, s1, baseChunk)
        ELSE IF type = "content_block_stop" THEN OnContentBlockStop(s1)
        ELSE IF type = "message_delta"
             THEN [state |-> s1, chunks |-> <<OnMessageDelta(anthropicEvent, baseChunk)>>]
        ELSE IF type = "message_stop" THEN [state |-> s1, chunks |-> <<>>]
        ELSE IF type = "error" THEN [state |-> s1, chunks |-> <<OnError(anthropicEvent)>>]
        ELSE [state |-> s1, chunks |-> <<>>]

\* What crypto.randomBytes(n).toString('hex') may give.
RandomHex == {"0a", "f1"}

\* The consumer of the stream hands the next event, in order, to the
\* converter, with the one state object of the request.
ConvertEvent ==
    /\ Len(converted) < Len(events)
    /\ \E randomId, randomFp \in RandomHex :
         LET r == convertAnthropicStreamEventToOpenAI(events[Len(converted) + 1], originalModel,
                                                      state, randomId, randomFp)
         IN  /\ state' = r.state
             /\ converted' = Append(converted, r.chunks)
    /\ UNCHANGED <<pc, events, hasEmittedStart, blockIndex, currentBlockType,
                   currentThinkingSignature, inputTokens, outputTokens, cacheReadTokens,
                   stopReason, now, lastDataTime, chunkCount, warningLogged,
                   readerCancelled, partCount, finishLog, promptSeen, lastArrival,
                   signatureCache, clientClosed, buffer, wire, input, output, reconverted,
                   checkIntervals, cleanup, tunnelVars>>

\* The generator resumes from a yield when the consumer asks for the next
\* event, which it does after it has converted the one it was given.
ResumeAfterConvert ==
    /\ Len(converted) = Len(events)
    /\ Resume

\* The stream of an OpenAI-dialect request: every event goes through the converter.
NextOpenAI == ReadChunk(OpenAIChunks) \/ ResumeAfterConvert \/ ReadDone \/ ConvertEvent

SpecOpenAI == Init /\ [][NextOpenAI]_vars

\* A stream with usageMetadata for an OpenAI client.
NextCounted == ReadChunk(CachedChunks) \/ ResumeAfterConvert \/ ReadDone \/ ConvertEvent

SpecCounted == Init /\ [][NextCounted]_vars

\* Events of every type the converter distinguishes, in any order.
AnyEvents ==
    {MessageStart(1, 0),
     BlockStart(0, [type |-> "thinking", thinking |-> <<>>]),
     BlockStart(0, [type |-> "text", text |-> <<>>]),
     BlockStart(0, [type |-> "tool_use", id |-> "call_1", name |-> "get_weather", input |-> "{}"]),
     BlockDelta(0, [type |-> "thinking_delta", thinking |-> <<"t">>]),
     BlockDelta(0, [type |-> "text_delta", text |-> <<"a">>]),
     BlockDelta(0, [type |-> "input_json_delta", partial_json |-> "{}"]),
     BlockStop(0),
     MessageDelta("tool_use", 1, 0),
     MessageStop,
     [type |-> "error", error |-> [type |-> "overloaded_error", message |-> "Overloaded"]],
     [type |-> "ping"]}

\* The converter is given a sequence of events that no generator has made.
InitReplay ==
    /\ pc = "replay"
    /\ events \in SeqsUpTo(AnyEvents, MaxEvents)
    /\ hasEmittedStart = FALSE
    /\ blockIndex = 0
    /\ currentBlockType = Null
    /\ currentThinkingSignature = ""
    /\ inputTokens = 0
    /\ outputTokens = 0
    /\ cacheReadTokens = 0
    /\ stopReason = Null
    /\ now = 0
    /\ lastDataTime = 0
    /\ chunkCount = 0
    /\ warningLogged = FALSE
    /\ readerCancelled = FALSE
    /\ partCount = 0
    /\ finishLog = <<>>
    /\ promptSeen = 0
    /\ lastArrival = 0
    /\ signatureCache = EmptyCache
    /\ clientClosed = FALSE
    /\ buffer = <<>>
    /\ wire = <<>>
    /\ state = EmptyObject
    /\ converted = <<>>
    /\ input = Null
    /\ output = Null
    /\ reconverted = Null
    /\ NoRead
    /\ NoTunnel

NextReplay == ConvertEvent

SpecReplay == InitReplay /\ [][NextReplay]_vars

\* A stream of tool calls for an OpenAI client.
NextTools == ReadChunk(ToolChunks) \/ ResumeAfterConvert \/ ReadDone \/ ConvertEvent

SpecTools == Init /\ [][NextTools]_vars

(***************************************************************************)
(* Values of the two dialects.  A value whose type the converter tests     *)
(* carries its kind: string, array, object, null or undefined.  A string   *)
(* that holds JSON text carries the tokens of the text in the field json;  *)
(* any other string carries its characters in the field value; an array   *)
(* carries its items and an object its members.                            *)
(***************************************************************************)
Str(s) == [kind |-> "string", value |-> s]

JsonText(tokens) == [kind |-> "string", json |-> tokens]

Arr(a) == [kind |-> "array", items |-> a]

Obj(o) == [kind |-> "object", members |-> o]

JsNull == [kind |-> "null"]

Undefined == [kind |-> "undefined"]

\* r.f
Field(r, f) == IF Has(r, f) THEN r[f] ELSE Undefined

\* if (v)
Truthy(v) == v.kind \notin {"null", "undefined"} /\ ~(v.kind = "string" /\ Has(v, "value") /\ v.value = "")

Punct(c) == [punct |-> c]

\* JSON.stringify(v): the tokens of the text
RECURSIVE JSON_stringify(_), StringifyMembers(_, _), StringifyElements(_)
JSON_stringify(v) ==
    IF v.kind = "string" THEN <<[str |-> v.value]>>
    ELSE IF v.kind = "object"
         THEN <<Punct("{")>> \o StringifyMembers(v.members, DOMAIN v.members) \o <<Punct("}")>>
    ELSE IF v.kind = "array"
         THEN <<Punct("[")>> \o StringifyElements(v.items) \o <<Punct("]")>>
    ELSE <<[literal |-> "null"]>>

StringifyMembers(members, keys) ==
    IF keys = {} THEN <<>>
    ELSE LET k == CHOOSE k \in keys : TRUE
             rest == keys \ {k}
         IN  <<[str |-> k], Punct(":")>> \o JSON_stringify(members[k])
             \o (IF rest = {} THEN <<>> ELSE <<Punct(",")>> \o StringifyMembers(members, rest))

StringifyElements(elements) ==
    IF elements = <<>> THEN <<>>
    ELSE JSON_stringify(Head(elements))
         \o (IF Len(elements) = 1 THEN <<>> ELSE <<Punct(",")>> \o StringifyElements(Tail(elements)))

ParseFails == [ok |-> FALSE]

\* The value that starts at token i, with the position after it.
RECURSIVE ParseValue(_, _), ParseMembers(_, _, _), ParseElements(_, _, _)
ParseValue(t, i) ==
    IF i > Len(t) THEN ParseFails
    ELSE IF Has(t[i], "str") THEN [ok |-> TRUE, value |-> Str(t[i].str), next |-> i + 1]
    ELSE IF Has(t[i], "literal") THEN [ok |-> TRUE, value |-> JsNull, next |-> i + 1]
    ELSE IF t[i] = Punct("{")
         THEN IF i + 1 <= Len(t) /\ t[i + 1] = Punct("}")
              THEN [ok |-> TRUE, value |-> Obj(EmptyObject), next |-> i + 2]
              ELSE ParseMembers(t, i + 1, EmptyObject)
    ELSE IF t[i] = Punct("[")
         THEN IF i + 1 <= Len(t) /\ t[i + 1] = Punct("]")
              THEN [ok |-> TRUE, value |-> Arr(<<>>), next |-> i + 2]
              ELSE ParseElements(t, i + 1, <<>>)
    ELSE ParseFails

ParseMembers(t, i, members) ==
    IF i + 1 > Len(t) THEN ParseFails
    ELSE IF ~Has(t[i], "str") \/ t[i + 1] # Punct(":") THEN ParseFails
    ELSE LET v == ParseValue(t, i + 2) IN
         IF ~v.ok THEN ParseFails
         ELSE IF v.next > Len(t) THEN ParseFails
         ELSE LET parsed == [k \in DOMAIN members \cup {t[i].str} |->
                                IF k = t[i].str THEN v.value ELSE members[k]]
              IN  IF t[v.next] = Punct("}")
                  THEN [ok |-> TRUE, value |-> Obj(parsed), next |-> v.next + 1]
                  ELSE IF t[v.next] = Punct(",") THEN ParseMembers(t, v.next + 1, parsed)
                  ELSE ParseFails

ParseElements(t, i, elements) ==
    LET v == ParseValue(t, i) IN
    IF ~v.ok THEN ParseFails
    ELSE IF v.next > Len(t) THEN ParseFails
    ELSE IF t[v.next] = Punct("]")
         THEN [ok |-> TRUE, value |-> Arr(Append(elements, v.value)), next |-> v.next + 1]
    ELSE IF t[v.next] = Punct(",") THEN ParseElements(t, v.next + 1, Append(elements, v.value))
    ELSE ParseFails

\* JSON.parse(text): [ok |-> TRUE, value] or, when it throws, [ok |-> FALSE]
JSON_parse(text) ==
    IF ~Has(text, "json") THEN ParseFails
    ELSE LET r == ParseValue(text.json, 1)
         IN  IF r.ok /\ r.next = Len(text.json) + 1 THEN r ELSE ParseFails

(***************************************************************************)
(* convertOpenAIToAnthropic.  A message is a record with role and,         *)
(* optionally, content, tool_calls, tool_call_id, name and function_call;  *)
(* content and arguments are values with their kind.  A conversion that    *)
(* throws gives [ok |-> FALSE].                                            *)
(***************************************************************************)
RECURSIVE JoinWith(_, _)
JoinWith(strings, separator) ==
    IF strings = <<>> THEN ""
    ELSE IF Len(strings) = 1 THEN strings[1]
    ELSE strings[1] \o separator \o JoinWith(Tail(strings), separator)

\* String(v) for a string or undefined
StringOf(v) == IF v.kind = "string" THEN v.value ELSE "undefined"

\* typeof msg.content === 'string' ? msg.content : msg.content?.map(c => c.text || '').join('\n')
SystemText(content) ==
    IF content.kind = "string" THEN content
    ELSE IF content.kind = "array"
         THEN Str(JoinWith([k \in 1..Len(content.items) |->
                               IF Truthy(Field(content.items[k].members, "text"))
                               THEN content.items[k].members.text.value ELSE ""], "\n"))
    ELSE Undefined

AppendSystemNoBlankLine(systemContent, content) ==
    IF systemContent.kind = "null" THEN content
    ELSE Str(StringOf(systemContent) \o StringOf(content))

\* systemContent after one more system message with this content.
AppendSystem(systemContent, content) ==
    IF systemContent.kind = "null" THEN content
    ELSE Str(StringOf(systemContent) \o "\n\n" \o StringOf(content))

\* The system content after the system messages `messages`, from `systemContent`.
RECURSIVE AccumulateSystem(_, _)
AccumulateSystem(systemContent, messages) ==
    IF messages = <<>> THEN systemContent
    ELSE LET content == SystemText(Field(Head(messages), "content"))
         IN  AccumulateSystem(AppendSystem(systemContent, content), Tail(messages))

RoleKept(role) == role

convertOpenAIRoleToAnthropic(role) ==
    IF role = "user" THEN "user"
    ELSE IF role = "assistant" THEN "assistant"
    ELSE IF role = "tool" THEN "user"
    ELSE IF role = "function" THEN "user"
    ELSE "user"

\* typeof content === 'string' ? content : JSON.stringify(content)
AsString(content) ==
    IF content.kind = "string" THEN content
    ELSE IF content.kind = "undefined" THEN Undefined
    ELSE JsonText(JSON_stringify(content))

\* typeof arguments === 'string' ? JSON.parse(arguments) : arguments || {}
ToolInput(arguments) ==
    IF arguments.kind = "string" THEN JSON_parse(arguments)
    ELSE [ok |-> TRUE, value |-> IF Truthy(arguments) THEN arguments ELSE Obj(EmptyObject)]

\* The tool_use block of one entry of msg.tool_calls.
ToolUseOf(toolCall, random) ==
    LET fn == IF Has(toolCall, "function") THEN toolCall.function ELSE EmptyObject
        parsed == ToolInput(Field(fn, "arguments"))
    IN  IF ~parsed.ok THEN [ok |-> FALSE]
        ELSE [ok |-> TRUE,
              block |-> [type |-> "tool_use",
                         id |-> IF Has(toolCall, "id") /\ toolCall.id # "" THEN toolCall.id
                                ELSE "toolu_" \o random,
                         name |-> IF Has(fn, "name") /\ fn.name # "" THEN fn.name
                                  ELSE IF Has(toolCall, "name") THEN toolCall.name ELSE Null,
                         input |-> parsed.value]]

\* What String.prototype.match gives for ^data:(.+);base64,(.+)$
DataUrlMatch(url) ==
    IF url = "data:image/png;base64,AAAA"
    THEN [matches |-> TRUE, media_type |-> "image/png", data |-> "AAAA"]
    ELSE [matches |-> FALSE]

\* One part of an array content.
ContentPart(part) ==
    IF Field(part.members, "type") = Str("text") THEN [type |-> "text", text |-> Field(part.members, "text")]
    ELSE IF Field(part.members, "type") = Str("image_url")
    THEN LET image_url == part.members.image_url
             url == IF image_url.kind = "object" THEN image_url.members.url.value ELSE image_url.value
             match == DataUrlMatch(url)
         IN  IF match.matches
             THEN [type |-> "image", source |-> [type |-> "base64", media_type |-> match.media_type,
                                                 data |-> match.data]]
             ELSE [type |-> "image", source |-> [type |-> "url", url |-> url]]
    ELSE part

convertOpenAIContentToAnthropic(msg, random) ==
    LET content == Field(msg, "content")
        text == IF Truthy(content) THEN <<[type |-> "text", text |-> AsString(content)]>> ELSE <<>>
    IN  IF msg.role = "tool" \/ msg.role = "function"
        THEN [ok |-> TRUE,
              content |-> Arr(<<[type |-> "tool_result",
                                 tool_use_id |-> IF Has(msg, "tool_call_id") /\ msg.tool_call_id # ""
                                                 THEN msg.tool_call_id
                                                 ELSE IF Has(msg, "name") /\ msg.name # "" THEN msg.name
                                                 ELSE "tool_" \o random,
                                 content |-> AsString(content)]>>)]
        ELSE IF msg.role = "assistant" /\ Has(msg, "tool_calls") /\ Len(msg.tool_calls) > 0
        THEN LET uses == [k \in 1..Len(msg.tool_calls) |-> ToolUseOf(msg.tool_calls[k], random)]
             IN  IF \E k \in 1..Len(uses) : ~uses[k].ok THEN [ok |-> FALSE]
                 ELSE [ok |-> TRUE,
                       content |-> Arr(text \o [k \in 1..Len(uses) |-> uses[k].block])]
        ELSE IF msg.role = "assistant" /\ Has(msg, "function_call")
        THEN LET parsed == ToolInput(Field(msg.function_call, "arguments"))
             IN  IF ~parsed.ok THEN [ok |-> FALSE]
                 ELSE [ok |-> TRUE,
                       content |-> Arr(Append(text, [type |-> "tool_use",
                                                     id |-> "toolu_" \o random,
                                                     name |-> msg.function_call.name,
                                                     input |-> parsed.value]))]
        ELSE IF content.kind = "string" THEN [ok |-> TRUE, content |-> content]
        ELSE IF content.kind = "array"
        THEN [ok |-> TRUE,
              content |-> Arr([k \in 1..Len(content.items) |-> ContentPart(content.items[k])])]
        ELSE [ok |-> TRUE, content |-> IF Truthy(content) THEN content ELSE Str("")]

\* delete obj.field
Without(obj, field) == [f \in DOMAIN obj \ {field} |-> obj[f]]

\* temperature, top_p and stop
WithOptional(anthropicRequest, openaiRequest) ==
    LET temperature == IF Has(openaiRequest, "temperature")
                       THEN With(anthropicRequest, "temperature", openaiRequest.temperature)
                       ELSE anthropicRequest
        top_p == IF Has(openaiRequest, "top_p")
                 THEN With(temperature, "top_p", openaiRequest.top_p) ELSE temperature
        stop == Field(openaiRequest, "stop")
    IN  IF Truthy(stop)
        THEN With(top_p, "stop_sequences", IF stop.kind = "array" THEN stop.items ELSE <<stop>>)
        ELSE top_p

\* { name, description || '', input_schema: parameters || { type: 'object' } }
ToolOf(fn) ==
    [name |-> fn.name,
     description |-> IF Has(fn, "description") THEN fn.description ELSE "",
     input_schema |-> IF Truthy(Field(fn, "parameters")) THEN fn.parameters
                      ELSE Obj([type |-> Str("object")])]

\* tools, then the legacy functions
WithTools(anthropicRequest, openaiRequest) ==
    LET tools == IF Has(openaiRequest, "tools") THEN openaiRequest.tools ELSE <<>>
        functions == IF Has(openaiRequest, "functions") THEN openaiRequest.functions ELSE <<>>
        converted_tools ==
            IF Len(tools) > 0
            THEN With(anthropicRequest, "tools",
                      [k \in 1..Len(tools) |->
                          IF tools[k].type = "function" THEN ToolOf(tools[k].function)
                          ELSE tools[k]])
            ELSE anthropicRequest
    IN  IF Len(functions) > 0
        THEN With(converted_tools, "tools", [k \in 1..Len(functions) |-> ToolOf(functions[k])])
        ELSE converted_tools

WithToolChoiceRequiredAuto(anthropicRequest, tool_choice) ==
    IF ~Truthy(tool_choice) THEN anthropicRequest
    ELSE IF tool_choice.kind = "string"
         THEN IF tool_choice.value = "auto"
              THEN With(anthropicRequest, "tool_choice", [type |-> "auto"])
              ELSE IF tool_choice.value = "none" THEN Without(anthropicRequest, "tools")
              ELSE IF tool_choice.value = "required"
                   THEN With(anthropicRequest, "tool_choice", [type |-> "auto"])
              ELSE anthropicRequest
    ELSE IF tool_choice.kind = "object" /\ Has(tool_choice.members, "function")
         THEN With(anthropicRequest, "tool_choice",
                   [type |-> "tool", name |-> tool_choice.members.function.name])
    ELSE anthropicRequest

\* if (tool_choice) { ... }
WithToolChoice(anthropicRequest, tool_choice) ==
    IF ~Truthy(tool_choice) THEN anthropicRequest
    ELSE IF tool_choice.kind = "string"
         THEN IF tool_choice.value = "auto"
              THEN With(anthropicRequest, "tool_choice", [type |-> "auto"])
              ELSE IF tool_choice.value = "none" THEN Without(anthropicRequest, "tools")
              ELSE IF tool_choice.value = "required"
                   THEN With(anthropicRequest, "tool_choice", [type |-> "any"])
              ELSE anthropicRequest
    ELSE IF tool_choice.kind = "object" /\ Has(tool_choice.members, "function")
         THEN With(anthropicRequest, "tool_choice",
                   [type |-> "tool", name |-> tool_choice.members.function.name])
    ELSE anthropicRequest

\* if (function_call) { ... }
WithFunctionCall(anthropicRequest, function_call) ==
    IF ~Truthy(function_call) THEN anthropicRequest
    ELSE IF function_call.kind = "string"
         THEN IF function_call.value = "auto"
              THEN With(anthropicRequest, "tool_choice", [type |-> "auto"])
              ELSE IF function_call.value = "none" THEN Without(anthropicRequest, "tools")
              ELSE anthropicRequest
    ELSE IF function_call.kind = "object" /\ Has(function_call.members, "name")
            /\ function_call.members.name # ""
         THEN With(anthropicRequest, "tool_choice",
                   [type |-> "tool", name |-> function_call.members.name])
    ELSE anthropicRequest

\* model.includes('thinking') || model.includes('gemini-3')
ThinkingModels ==
    {"gemini-3-pro-high", "gemini-3-flash", "claude-opus-4-5-thinking"}

WithThinking(anthropicRequest, model) ==
    IF model \in ThinkingModels
    THEN With(anthropicRequest, "thinking", [type |-> "enabled", budget_tokens |-> 16000])
    ELSE anthropicRequest

convertOpenAIToAnthropic(openaiRequest, random) ==
    LET messages == IF Has(openaiRequest, "messages") THEN openaiRequest.messages ELSE <<>>
        systemContent == AccumulateSystem(JsNull, SelectSeq(messages, LAMBDA m : m.role = "system"))
        nonSystemMessages == SelectSeq(messages, LAMBDA m : m.role # "system")
        contents == [k \in 1..Len(nonSystemMessages) |->
                        convertOpenAIContentToAnthropic(nonSystemMessages[k], random)]
        maxCompletion == IF Has(openaiRequest, "max_completion_tokens")
                         THEN openaiRequest.max_completion_tokens ELSE 0
        maxTokens == IF Has(openaiRequest, "max_tokens") THEN openaiRequest.max_tokens ELSE 0
    IN  IF \E k \in 1..Len(contents) : ~contents[k].ok THEN [throws |-> "SyntaxError"]
        ELSE LET anthropicRequest ==
                     [model |-> IF Has(openaiRequest, "model") THEN openaiRequest.model ELSE Null,
                      messages |-> [k \in 1..Len(nonSystemMessages) |->
                                       [role |-> convertOpenAIRoleToAnthropic(nonSystemMessages[k].role),
                                        content |-> contents[k].content]],
                      max_tokens |-> OrElse(maxCompletion, OrElse(maxTokens, 4096)),
                      stream |-> IF Has(openaiRequest, "stream") THEN openaiRequest.stream ELSE Null]
                 withSystem == IF Truthy(systemContent)
                               THEN With(anthropicRequest, "system", systemContent.value)
                               ELSE anthropicRequest
                 withTools == WithTools(WithOptional(withSystem, openaiRequest), openaiRequest)
                 withChoice == WithFunctionCall(
                                   WithToolChoice(withTools, Field(openaiRequest, "tool_choice")),
                                   Field(openaiRequest, "function_call"))
             IN  WithThinking(withChoice, anthropicRequest.model)

\* The tokens of {"city":"Paris"}
ParisArguments ==
    <<Punct("{"), [str |-> "city"], Punct(":"), [str |-> "Paris"], Punct("}")>>

\* Messages of every role, with string, null and array content.
RequestMessages ==
    {[role |-> "system", content |-> Str("Be brief.")],
     [role |-> "user", content |-> Str("hi")],
     [role |-> "assistant", content |-> Str("hello")],
     [role |-> "assistant", content |-> JsNull,
      tool_calls |-> <<[id |-> "call_1", type |-> "function",
                        function |-> [name |-> "get_weather",
                                      arguments |-> JsonText(ParisArguments)]]>>],
     [role |-> "tool", tool_call_id |-> "call_1", content |-> Str("sunny")],
     [role |-> "function", name |-> "get_weather", content |-> Str("sunny")],
     [role |-> "developer", content |-> Str("Answer in French.")],
     [role |-> "user",
      content |-> Arr(<<Obj([type |-> Str("text"), text |-> Str("what is this")]),
                        Obj([type |-> Str("image_url"),
                             image_url |-> Obj([url |-> Str("data:image/png;base64,AAAA")])])>>)]}

OpenAIRequests ==
    {[model |-> "gpt-4o", messages |-> messages, stream |-> FALSE] :
        messages \in SeqsUpTo(RequestMessages, MaxMessages)}

\* Everything but the argument of the call is as at the start of a stream.
IdleStream ==
    /\ events = <<>>
    /\ hasEmittedStart = FALSE
    /\ blockIndex = 0
    /\ currentBlockType = Null
    /\ currentThinkingSignature = ""
    /\ inputTokens = 0
    /\ outputTokens = 0
    /\ cacheReadTokens = 0
    /\ stopReason = Null
    /\ now = 0
    /\ lastDataTime = 0
    /\ chunkCount = 0
    /\ warningLogged = FALSE
    /\ readerCancelled = FALSE
    /\ partCount = 0
    /\ finishLog = <<>>
    /\ promptSeen = 0
    /\ lastArrival = 0
    /\ signatureCache = EmptyCache
    /\ clientClosed = FALSE
    /\ buffer = <<>>
    /\ wire = <<>>
    /\ state = EmptyObject
    /\ converted = <<>>
    /\ NoRead
    /\ NoTunnel

streamVars == <<events, hasEmittedStart, blockIndex, currentBlockType,
                currentThinkingSignature, inputTokens, outputTokens, cacheReadTokens,
                stopReason, now, lastDataTime, chunkCount, warningLogged, readerCancelled,
                partCount, finishLog, promptSeen, lastArrival, signatureCache,
                clientClosed, buffer, wire, state, converted, checkIntervals, cleanup>>

generatorVars == <<streamVars, tunnelVars>>

\* An OpenAI request arrives.
InitRequest ==
    /\ pc = "request"
    /\ input \in OpenAIRequests
    /\ output = Null
    /\ reconverted = Null
    /\ IdleStream

\* The request is converted.
ConvertRequest ==
    /\ pc = "request"
    /\ \E random \in RandomHex : output' = convertOpenAIToAnthropic(input, random)
    /\ pc' = "converted"
    /\ UNCHANGED <<generatorVars, input, reconverted>>

NextRequest == ConvertRequest

SpecRequest == InitRequest /\ [][NextRequest]_vars

\* A request whose system messages stand anywhere among the others, with
\* string, empty and array content.
SystemMessages ==
    {[role |-> "system", content |-> Str("Be brief.")],
     [role |-> "system", content |-> Str("Cite.")],
     [role |-> "system", content |-> Str("")],
     [role |-> "system",
      content |-> Arr(<<Obj([type |-> Str("text"), text |-> Str("a")]),
                        Obj([type |-> Str("text"), text |-> Str("b")])>>)],
     [role |-> "user", content |-> Str("hi")],
     [role |-> "assistant", content |-> Str("hello")]}

SystemRequests ==
    {[model |-> "gpt-4o", messages |-> messages, stream |-> FALSE] :
        messages \in SeqsUpTo(SystemMessages, MaxMessages)}

InitSystem ==
    /\ pc = "request"
    /\ input \in SystemRequests
    /\ output = Null
    /\ reconverted = Null
    /\ IdleStream

SpecSystem == InitSystem /\ [][NextRequest]_vars

\* The tokens of {"city": cut short
TruncatedArguments == <<Punct("{"), [str |-> "city"], Punct(":")>>

\* Assistant messages whose arguments are valid JSON, invalid JSON and an
\* object, in tool_calls and in the legacy function_call.
ArgumentMessages ==
    {[role |-> "user", content |-> Str("hi")],
     [role |-> "assistant", content |-> JsNull,
      tool_calls |-> <<[id |-> "call_1", type |-> "function",
                        function |-> [name |-> "get_weather",
                                      arguments |-> JsonText(ParisArguments)]]>>],
     [role |-> "assistant", content |-> JsNull,
      tool_calls |-> <<[id |-> "call_1", type |-> "function",
                        function |-> [name |-> "get_weather",
                                      arguments |-> JsonText(ParisArguments)]],
                       [id |-> "call_2", type |-> "function",
                        function |-> [name |-> "get_weather",
                                      arguments |-> JsonText(TruncatedArguments)]]>>],
     [role |-> "assistant", content |-> Str("one moment"),
      tool_calls |-> <<[id |-> "call_3", type |-> "function",
                        function |-> [name |-> "get_time",
                                      arguments |-> Obj([zone |-> Str("UTC")])]]>>],
     [role |-> "assistant", content |-> JsNull,
      function_call |-> [name |-> "get_weather", arguments |-> JsonText(ParisArguments)]],
     [role |-> "assistant", content |-> JsNull,
      function_call |-> [name |-> "get_weather", arguments |-> JsonText(TruncatedArguments)]]}

ArgumentRequests ==
    {[model |-> "gpt-4o", messages |-> messages, stream |-> FALSE] :
        messages \in SeqsUpTo(ArgumentMessages, MaxMessages)}

InitArguments ==
    /\ pc = "request"
    /\ input \in ArgumentRequests
    /\ output = Null
    /\ reconverted = Null
    /\ IdleStream

SpecArguments == InitArguments /\ [][NextRequest]_vars

\* Tool and function results that answer an earlier call, that name a call
\* nobody made, and that carry neither tool_call_id nor name.
ToolResultMessages ==
    {[role |-> "user", content |-> Str("hi")],
     [role |-> "assistant", content |-> JsNull,
      tool_calls |-> <<[id |-> "call_1", type |-> "function",
                        function |-> [name |-> "get_weather",
                                      arguments |-> JsonText(ParisArguments)]]>>],
     [role |-> "tool", tool_call_id |-> "call_1", content |-> Str("sunny")],
     [role |-> "tool", tool_call_id |-> "call_9", content |-> Str("rain")],
     [role |-> "tool", content |-> Str("sunny")],
     [role |-> "function", name |-> "get_weather", content |-> Str("sunny")],
     [role |-> "function", content |-> Obj([sky |-> Str("clear")])]}

ToolResultRequests ==
    {[model |-> "gpt-4o", messages |-> messages, stream |-> FALSE] :
        messages \in SeqsUpTo(ToolResultMessages, MaxMessages)}

InitToolResults ==
    /\ pc = "request"
    /\ input \in ToolResultRequests
    /\ output = Null
    /\ reconverted = Null
    /\ IdleStream

SpecToolResults == InitToolResults /\ [][NextRequest]_vars

MaxTools == 2

\* A tool with and without description and parameters, and one that is not a
\* function.
ToolDefinitions ==
    {[type |-> "function",
      function |-> [name |-> "get_weather", description |-> "Weather of a city",
                    parameters |-> Obj([type |-> Str("object"),
                                        required |-> Arr(<<Str("city")>>)])]],
     [type |-> "function", function |-> [name |-> "get_time"]],
     [type |-> "custom", name |-> "raw"]}

ToolChoices ==
    {Undefined, Str("auto"), Str("none"), Str("required"),
     Obj([type |-> "function", function |-> [name |-> "get_weather"]])}

StopValues == {Undefined, Str("END"), Arr(<<Str("END"), Str("STOP")>>)}

ToolRequests ==
    LET plain == {[model |-> "gpt-4o",
                   messages |-> <<[role |-> "user", content |-> Str("hi")]>>,
                   tools |-> tools, tool_choice |-> tool_choice, stop |-> stop] :
                     tools \in SeqsUpTo(ToolDefinitions, MaxTools),
                     tool_choice \in ToolChoices, stop \in StopValues}
    IN  plain \cup {With(request, "temperature", 0) : request \in plain}

\* The same request written with the legacy fields functions and function_call.
LegacyOf(openaiRequest) ==
    LET tool_choice == openaiRequest.tool_choice
        bare == Without(Without(openaiRequest, "tools"), "tool_choice")
        functions == With(bare, "functions",
                          [k \in 1..Len(openaiRequest.tools) |-> openaiRequest.tools[k].function])
    IN  With(functions, "function_call",
             IF tool_choice.kind = "object" THEN Obj([name |-> tool_choice.members.function.name])
             ELSE tool_choice)

\* The request has a legacy form: function tools only, and a choice other than
\* required.
HasLegacyForm(openaiRequest) ==
    /\ \A k \in 1..Len(openaiRequest.tools) : openaiRequest.tools[k].type = "function"
    /\ openaiRequest.tool_choice # Str("required")

InitToolChoice ==
    /\ pc = "request"
    /\ input \in ToolRequests
    /\ output = Null
    /\ reconverted = Null
    /\ IdleStream

\* The same request arrives in its legacy form and is converted.
ConvertLegacy ==
    /\ pc = "converted"
    /\ HasLegacyForm(input)
    /\ \E random \in RandomHex : reconverted' = convertOpenAIToAnthropic(LegacyOf(input), random)
    /\ pc' = "compared"
    /\ UNCHANGED <<generatorVars, input, output>>

NextToolChoice == ConvertRequest \/ ConvertLegacy

SpecToolChoice == InitToolChoice /\ [][NextToolChoice]_vars

\* Requests with every combination of max_completion_tokens and max_tokens:
\* absent, 0 and positive.
MaxTokensRequests ==
    LET plain == {[model |-> model, messages |-> messages, stream |-> stream] :
                     model \in {"gpt-4o", "gemini-3-pro-high"},
                     messages \in SeqsUpTo({[role |-> "user", content |-> Str("hi")]}, MaxMessages),
                     stream \in BOOLEAN}
        completion == plain \cup {With(request, "max_completion_tokens", n) :
                                     request \in plain, n \in 0..MaxTokens}
    IN  completion \cup {With(request, "max_tokens", n) :
                            request \in completion, n \in 0..MaxTokens}

InitMaxTokens ==
    /\ pc = "request"
    /\ input \in MaxTokensRequests
    /\ output = Null
    /\ reconverted = Null
    /\ IdleStream

SpecMaxTokens == InitMaxTokens /\ [][NextRequest]_vars

(***************************************************************************)
(* convertAnthropicToOpenAI.  A response is a record with content (a       *)
(* sequence of blocks), stop_reason and, optionally, model and usage.      *)
(* random holds what crypto.randomBytes gives: id, fingerprint, and one    *)
(* value per tool_use block in calls.                                      *)
(***************************************************************************)
MaxBlocks == 2

\* The blocks of one type, in order.
BlocksOf(content, type) == SelectSeq(content, LAMBDA block : block.type = type)

TextContentSpaced(anthropicResponse) ==
    LET blocks == BlocksOf(IF Has(anthropicResponse, "content") THEN anthropicResponse.content
                           ELSE <<>>, "text")
    IN  JoinWith([k \in 1..Len(blocks) |-> blocks[k].text.value], " ")

\* .map(block => block.text).join('')
TextContent(anthropicResponse) ==
    LET blocks == BlocksOf(IF Has(anthropicResponse, "content") THEN anthropicResponse.content
                           ELSE <<>>, "text")
    IN  JoinWith([k \in 1..Len(blocks) |-> blocks[k].text.value], "")

ToolCallFreshId(block, random) ==
    [id |-> "call_" \o random,
     type |-> "function",
     function |-> [name |-> block.name,
                   arguments |-> JsonText(JSON_stringify(IF Truthy(Field(block, "input"))
                                                         THEN block.input ELSE Obj(EmptyObject)))]]

\* The entry of tool_calls for one tool_use block.
ToolCallOf(block, random) ==
    [id |-> IF Has(block, "id") /\ block.id # "" THEN block.id ELSE "call_" \o random,
     type |-> "function",
     function |-> [name |-> block.name,
                   arguments |-> JsonText(JSON_stringify(IF Truthy(Field(block, "input"))
                                                         THEN block.input ELSE Obj(EmptyObject)))]]

FinishReasonOf(stop_reason) ==
    IF stop_reason = "tool_use" THEN "tool_calls"
    ELSE IF stop_reason = "max_tokens" THEN "length"
    ELSE "stop"

UsageOf(anthropicResponse, field) ==
    IF Has(anthropicResponse, "usage") /\ Has(anthropicResponse.usage, field)
    THEN anthropicResponse.usage[field] ELSE 0

convertAnthropicToOpenAI(anthropicResponse, model, isStreaming, random, clock) ==
    LET textContent == TextContent(anthropicResponse)
        blocks == BlocksOf(IF Has(anthropicResponse, "content") THEN anthropicResponse.content
                           ELSE <<>>, "tool_use")
        toolCalls == [k \in 1..Len(blocks) |-> ToolCallOf(blocks[k], random.calls[k])]
        text == [role |-> "assistant",
                 content |-> IF textContent # "" THEN Str(textContent) ELSE JsNull]
        message == IF Len(toolCalls) > 0 THEN With(text, "tool_calls", toolCalls) ELSE text
    IN  [id |-> "chatcmpl-" \o random.id,
         object |-> IF isStreaming THEN "chat.completion.chunk" ELSE "chat.completion",
         created |-> clock \div 1000,
         model |-> IF model # Null THEN model
                   ELSE IF Has(anthropicResponse, "model") THEN anthropicResponse.model ELSE Null,
         choices |-> <<[index |-> 0,
                        message |-> message,
                        finish_reason |-> FinishReasonOf(IF Has(anthropicResponse, "stop_reason")
                                                         THEN anthropicResponse.stop_reason
                                                         ELSE Null)]>>,
         usage |-> [prompt_tokens |-> UsageOf(anthropicResponse, "input_tokens"),
                    completion_tokens |-> UsageOf(anthropicResponse, "output_tokens"),
                    total_tokens |-> UsageOf(anthropicResponse, "input_tokens")
                                     + UsageOf(anthropicResponse, "output_tokens")],
         system_fingerprint |-> "fp_" \o random.fingerprint]

\* Text and tool_use blocks: with and without an id, with an empty, a flat and
\* a nested input.
ResponseBlocks ==
    {[type |-> "text", text |-> Str("Let me check.")],
     [type |-> "tool_use", id |-> "toolu_01", name |-> "get_weather",
      input |-> Obj([city |-> Str("Paris")])],
     [type |-> "tool_use", name |-> "get_time", input |-> Obj(EmptyObject)],
     [type |-> "tool_use", id |-> "toolu_02", name |-> "search",
      input |-> Obj([query |-> Str("tla"),
                     filters |-> Obj([tags |-> Arr(<<Str("a"), JsNull>>)])])]}

AnthropicResponses ==
    {[content |-> content, stop_reason |-> stop_reason,
      usage |-> [input_tokens |-> 1, output_tokens |-> 1]] :
        content \in SeqsUpTo(ResponseBlocks, MaxBlocks), stop_reason \in {"end_turn", "tool_use"}}

\* What crypto.randomBytes gives during one conversion of a response.
RandomOf(anthropicResponse) ==
    {[id |-> id, fingerprint |-> fingerprint, calls |-> calls] :
        id \in RandomHex, fingerprint \in RandomHex,
        calls \in [1..Len(BlocksOf(anthropicResponse.content, "tool_use")) -> RandomHex]}

\* An Anthropic response arrives for a non-streaming request.
InitResponse ==
    /\ pc = "response"
    /\ input \in AnthropicResponses
    /\ output = Null
    /\ reconverted = Null
    /\ IdleStream

\* The response is converted for the client.
ConvertResponse ==
    /\ pc = "response"
    /\ \E random \in RandomOf(input) :
          output' = convertAnthropicToOpenAI(input, originalModel, FALSE, random, now)
    /\ pc' = "responded"
    /\ UNCHANGED <<generatorVars, input, reconverted>>

\* The client sends the assistant message back in its next request.
ConvertBack ==
    /\ pc = "responded"
    /\ \E random \in RandomHex :
          reconverted' = convertOpenAIToAnthropic([model |-> output.model,
                                                   messages |-> <<output.choices[1].message>>],
                                                  random)
    /\ pc' = "reconverted"
    /\ UNCHANGED <<generatorVars, input, output>>

NextRoundTrip == ConvertResponse \/ ConvertBack

SpecRoundTrip == InitResponse /\ [][NextRoundTrip]_vars

\* Text blocks (one of them empty), a thinking block and tool_use blocks.
AnswerBlocks ==
    {[type |-> "text", text |-> Str("Let me")],
     [type |-> "text", text |-> Str(" check.")],
     [type |-> "text", text |-> Str("")],
     [type |-> "thinking", thinking |-> Str("hm"), signature |-> "signature-0123456789"],
     [type |-> "tool_use", id |-> "toolu_01", name |-> "get_weather",
      input |-> Obj([city |-> Str("Paris")])],
     [type |-> "tool_use", name |-> "get_time", input |-> Obj(EmptyObject)]}

\* Responses with and without usage.
Answers ==
    LET plain == {[content |-> content, stop_reason |-> stop_reason] :
                     content \in SeqsUpTo(AnswerBlocks, MaxBlocks),
                     stop_reason \in {"end_turn", "tool_use"}}
    IN  plain \cup {With(response, "usage", [input_tokens |-> n, output_tokens |-> MaxTokens]) :
                       response \in plain, n \in 0..MaxTokens}

InitAnswer ==
    /\ pc = "response"
    /\ input \in Answers
    /\ output = Null
    /\ reconverted = Null
    /\ IdleStream

SpecAnswer == InitAnswer /\ [][ConvertResponse]_vars

(***************************************************************************)
(* Properties.                                                             *)
(***************************************************************************)
\* The events that carry an index, in order.
Indexed == SelectSeq(events, LAMBDA e : Has(e, "index"))

CountOf(type) == Cardinality({k \in 1..Len(events) : events[k].type = type})

IsStart(e, blockType) == e.type = "content_block_start" /\ e.content_block.type = blockType

ToolSeen == \E k \in 1..Len(events) : IsStart(events[k], "tool_use")

\* The stop_reason of the message_delta of a completed stream.
ReportedStopReason == events[Len(events) - 1].delta.stop_reason

\* C1: the index of the block events never decreases; it grows, by exactly one,
\* exactly at a content_block_start that follows an earlier block; the first
\* block has index 0.
C1_BlockIndexMonotone ==
    LET ix == Indexed IN
    /\ ix # <<>> => ix[1].type = "content_block_start" /\ ix[1].index = 0
    /\ \A k \in 1..(Len(ix) - 1) :
         IF ix[k + 1].type = "content_block_start"
         THEN ix[k + 1].index = ix[k].index + 1
         ELSE ix[k + 1].index = ix[k].index

C1_ThreeBlocks ==
    /\ pc = "done"
    /\ \E k \in 1..Len(events) : events[k].type = "content_block_delta" /\ events[k].index = 2

\* The block open after the events es when `open` was open before them:
\* -1 when none is, -2 when a start found a block open, or a delta or a stop
\* found another block open than its own.
RECURSIVE OpenAfter(_, _)
OpenAfter(open, es) ==
    IF es = <<>> THEN open
    ELSE LET e == Head(es)
             next == IF open = -2 \/ ~Has(e, "index") THEN open
                     ELSE IF e.type = "content_block_start"
                          THEN (IF open = -1 THEN e.index ELSE -2)
                     ELSE IF e.type = "content_block_delta"
                          THEN (IF open = e.index THEN open ELSE -2)
                     ELSE (IF open = e.index THEN -1 ELSE -2)
         IN  OpenAfter(next, Tail(es))

StartsOf(i) == {k \in 1..Len(events) : events[k].type = "content_block_start" /\ events[k].index = i}

StopsOf(i) == {k \in 1..Len(events) : events[k].type = "content_block_stop" /\ events[k].index = i}

\* C2: at most one block is open at a time: a start finds no block open, a
\* delta and a stop carry the index of the open block, the stop of block i
\* precedes the start of block i+1, and a completed stream has stopped every
\* block it started exactly once.
C2_OneOpenBlock ==
    /\ OpenAfter(-1, events) # -2
    /\ \A k \in 1..Len(events) :
         (events[k].type = "content_block_start" /\ events[k].index > 0)
            => \E j \in StopsOf(events[k].index - 1) : j < k
    /\ pc = "done" =>
         /\ OpenAfter(-1, events) = -1
         /\ \A k \in 1..Len(events) :
              Has(events[k], "index") =>
                 /\ Cardinality(StartsOf(events[k].index)) = 1
                 /\ Cardinality(StopsOf(events[k].index)) = 1

C2_ImageThenBlock ==
    /\ pc = "done"
    /\ \E k \in 1..Len(events) : IsStart(events[k], "image") /\ events[k].index = 1
    /\ StartsOf(2) # {}

\* C3: message_start is yielded at most once, as the first event of the
\* stream, and it has been yielded exactly when some line has carried a part.
C3_MessageStartFirstOnce ==
    /\ CountOf("message_start") <= 1
    /\ events # <<>> => events[1].type = "message_start"
    /\ (partCount > 0) <=> (CountOf("message_start") = 1)
    /\ hasEmittedStart <=> (CountOf("message_start") = 1)

C3_StartThenTwoBlocks ==
    /\ pc = "done"
    /\ chunkCount = 2
    /\ CountOf("content_block_start") >= 2

\* C4: a stream that ends after message_start ends with the pending
\* signature of an open thinking block, the stop of the open block, one
\* message_delta with stop_reason = stopReason (end_turn when null) and a
\* null stop_sequence, and one message_stop as the last event.
C4_EndOfStream ==
    pc = "done" =>
      LET n == Len(events)
          closing == IF currentBlockType = Null THEN 0
                     ELSE IF currentBlockType = "thinking" /\ currentThinkingSignature # "" THEN 2
                     ELSE 1
      IN  /\ n >= 3 + closing
          /\ events[n] = MessageStop
          /\ events[n - 1].type = "message_delta"
          /\ events[n - 1].delta.stop_reason = (IF stopReason = Null THEN "end_turn" ELSE stopReason)
          /\ events[n - 1].delta.stop_sequence = Null
          /\ CountOf("message_delta") = 1
          /\ CountOf("message_stop") = 1
          /\ closing >= 1 => events[n - 2] = BlockStop(blockIndex)
          /\ closing = 2 => events[n - 3] = SignatureDelta(blockIndex, currentThinkingSignature)
          /\ closing = 1 => ~(events[n - 3].type = "content_block_delta"
                              /\ events[n - 3].delta.type = "signature_delta"
                              /\ currentBlockType = "thinking")
          /\ closing = 0 => (events[n - 2].type = "message_start"
                             \/ events[n - 2] = BlockStop(blockIndex - 1))

C4_EndsInsideSignedThinking ==
    /\ pc = "done"
    /\ currentBlockType = "thinking"
    /\ currentThinkingSignature # ""
    /\ blockIndex > 0

\* C5: a stream that ends before any line has carried a part raises
\* EmptyResponseError and has yielded nothing; no such stream completes.
C5_EmptyResponse ==
    /\ pc = "empty_error" => events = <<>> /\ partCount = 0
    /\ pc = "done" => partCount > 0

C5_EmptyAfterUsageAndFinish ==
    /\ pc = "empty_error"
    /\ chunkCount = 2
    /\ finishLog # <<>>
    /\ inputTokens > 0

\* C6: when the supervisor's check finds the stream idle for more than the
\* limit, the generator fails with the idle-timeout error and yields nothing
\* more.
C6_IdleTimeoutFails ==
    [][(pc = "reading" /\ now' > now /\ now' - lastDataTime > STREAM_READ_TIMEOUT_MS)
          => (pc' = "timeout_error" /\ events' = events)]_vars

\* C7: the supervisor cancels the read only when the upstream has delivered
\* nothing for more than the idle limit, however long the stream has run.
C7_NoTimeoutWhileDataFlows ==
    readerCancelled => now - lastArrival > STREAM_READ_TIMEOUT_MS

C7_LongStreamCompletes ==
    /\ pc = "done"
    /\ ~readerCancelled
    /\ chunkCount = 2
    /\ now > STREAM_READ_TIMEOUT_MS

AnthropicStopReasons == {"end_turn", "tool_use", "max_tokens", "stop_sequence"}

\* C8: in a completed stream whose lines carry one finishReason value (or
\* none), a tool call gives stop_reason tool_use and finish_reason tool_calls;
\* MAX_TOKENS without a tool call gives max_tokens and length; anything else
\* gives end_turn and stop.  The non-streaming converter maps alike.
C8_StopReasonTable ==
    /\ (pc = "done" /\ \A i, j \in 1..Len(finishLog) : finishLog[i] = finishLog[j]) =>
         LET reason == ReportedStopReason
             finish == StreamFinishReason(reason)
         IN  IF ToolSeen THEN reason = "tool_use" /\ finish = "tool_calls"
             ELSE IF finishLog # <<>> /\ finishLog[1] = "MAX_TOKENS"
                  THEN reason = "max_tokens" /\ finish = "length"
             ELSE reason = "end_turn" /\ finish = "stop"
    /\ \A reason \in AnthropicStopReasons :
         NonStreamFinishReason(reason) =
            (IF reason = "tool_use" THEN "tool_calls"
             ELSE IF reason = "max_tokens" THEN "length" ELSE "stop")

C8_MaxTokensWithoutTool ==
    /\ pc = "done"
    /\ ~ToolSeen
    /\ finishLog = <<"MAX_TOKENS", "MAX_TOKENS">>

\* The last STOP or MAX_TOKENS of a finishReason log, "none" without one.
RECURSIVE LastStopOrMax(_)
LastStopOrMax(log) ==
    IF log = <<>> THEN "none"
    ELSE IF log[Len(log)] \in {"STOP", "MAX_TOKENS"} THEN log[Len(log)]
    ELSE LastStopOrMax(SubSeq(log, 1, Len(log) - 1))

\* C9: without a tool call, the reported stop_reason is that of the last
\* STOP or MAX_TOKENS finishReason the stream carried.
C9_LastFinishReasonWins ==
    (pc = "done" /\ ~ToolSeen /\ LastStopOrMax(finishLog) # "none") =>
        ReportedStopReason = (IF LastStopOrMax(finishLog) = "MAX_TOKENS" THEN "max_tokens"
                              ELSE "end_turn")

\* C10: the usage of message_start splits the promptTokenCount reported up to
\* and including the line that starts the message into input_tokens and
\* cache_read_input_tokens, and reports no output and no cache creation.
C10_MessageStartUsage ==
    [][(~hasEmittedStart /\ hasEmittedStart') =>
          LET usage == events'[1].message.usage
          IN  /\ usage.input_tokens + usage.cache_read_input_tokens = promptSeen'
              /\ usage.output_tokens = 0
              /\ usage.cache_creation_input_tokens = 0]_vars

C10_StartAfterUsageUpdates ==
    /\ hasEmittedStart
    /\ chunkCount = 2
    /\ events[1].message.usage.cache_read_input_tokens = 1
    /\ events[1].message.usage.input_tokens = 1

\* The chunks the converter has returned so far, in order.
EmittedChunks == Flatten(converted)

Drained == pc = "done" /\ Len(converted) = Len(events)

\* C11: of the chunks of a stream, the first is the only one with delta.role
\* (assistant, with content ""), every one has object chat.completion.chunk,
\* only the chunk of message_delta has a finish_reason, and message_stop
\* gives no chunk; when a completed stream has been converted, the chunk with
\* the finish_reason is the last one.
C11_ChunkFraming ==
    LET chunks == EmittedChunks
        n == Len(chunks)
    IN  /\ \A k \in 1..n :
              /\ chunks[k].object = "chat.completion.chunk"
              /\ Has(chunks[k].choices[1].delta, "role") <=> k = 1
        /\ n >= 1 => /\ chunks[1].choices[1].delta.role = "assistant"
                      /\ chunks[1].choices[1].delta.content = <<>>
        /\ \A k \in 1..Len(converted) :
              /\ events[k].type = "message_stop" => converted[k] = <<>>
              /\ events[k].type = "message_delta" =>
                    Len(converted[k]) = 1 /\ converted[k][1].choices[1].finish_reason # Null
              /\ events[k].type # "message_delta" =>
                    \A j \in 1..Len(converted[k]) : converted[k][j].choices[1].finish_reason = Null
        /\ Drained =>
              /\ n >= 2
              /\ chunks[n].choices[1].finish_reason # Null
              /\ \A k \in 1..(n - 1) : chunks[k].choices[1].finish_reason = Null

C11_ThinkingTextToolConverted ==
    /\ Drained
    /\ \E k \in 1..Len(events) : IsStart(events[k], "thinking")
    /\ \E k \in 1..Len(events) : IsStart(events[k], "text")
    /\ ToolSeen
    /\ Len(EmittedChunks) = 5

IsDelta(e, deltaType) == e.type = "content_block_delta" /\ e.delta.type = deltaType

\* The events the converter has been given so far.
ConvertedEvents == SubSeq(events, 1, Len(converted))

\* The texts of the text_delta events converted so far, in order.
TextDeltaTexts ==
    LET deltas == SelectSeq(ConvertedEvents, LAMBDA e : IsDelta(e, "text_delta"))
    IN  [k \in 1..Len(deltas) |-> deltas[k].delta.text]

\* The delta.content of the chunks after the role chunk, in order.
ChunkContents ==
    LET carrying == SelectSeq(EmittedChunks,
                              LAMBDA c : Has(c.choices[1].delta, "content")
                                         /\ ~Has(c.choices[1].delta, "role"))
    IN  [k \in 1..Len(carrying) |-> carrying[k].choices[1].delta.content]

\* C12: each text_delta of a stream gives exactly one chunk, whose
\* delta.content is the text; the contents of the chunks are the texts of the
\* text_delta events in order, so their concatenations are equal; inThinking
\* is false when a text_delta or an input_json_delta arrives.
C12_TextDeltasBecomeContent ==
    /\ \A k \in 1..Len(converted) :
          IsDelta(events[k], "text_delta") =>
             /\ Len(converted[k]) = 1
             /\ converted[k][1].choices[1].delta = [content |-> events[k].delta.text]
    /\ ChunkContents = TextDeltaTexts
    /\ Flatten(ChunkContents) = Flatten(TextDeltaTexts)
    /\ Len(converted) < Len(events) =>
          LET arriving == events[Len(converted) + 1]
          IN  (IsDelta(arriving, "text_delta") \/ IsDelta(arriving, "input_json_delta"))
                 => ~InThinking(state)

C12_TextAfterThinking ==
    /\ Drained
    /\ IsStart(events[2], "thinking")
    /\ Flatten(ChunkContents) = <<"a", "b">>

\* After the first k events a thinking block is open: the last
\* content_block_start or content_block_stop among them starts a thinking block.
RECURSIVE ThinkingOpen(_)
ThinkingOpen(k) ==
    IF k = 0 THEN FALSE
    ELSE IF events[k].type = "content_block_start" THEN events[k].content_block.type = "thinking"
    ELSE IF events[k].type = "content_block_stop" THEN FALSE
    ELSE ThinkingOpen(k - 1)

ThinkingTexts == {events[k].delta.thinking : k \in {j \in 1..Len(events) : IsDelta(events[j], "thinking_delta")}}

Signatures == {events[k].delta.signature : k \in {j \in 1..Len(events) : IsDelta(events[j], "signature_delta")}}

\* C13: the converter returns no chunk for a thinking content_block_start,
\* for any event up to the next content_block_stop, or for that stop;
\* inThinking is set exactly from a thinking content_block_start to the next
\* content_block_stop; no chunk carries a thinking text or a signature.
C13_ThinkingDropped ==
    /\ \A k \in 1..Len(converted) :
          (ThinkingOpen(k) \/ ThinkingOpen(k - 1)) => converted[k] = <<>>
    /\ InThinking(state) <=> ThinkingOpen(Len(converted))
    /\ \A k \in 1..Len(EmittedChunks) :
          LET delta == EmittedChunks[k].choices[1].delta IN
          /\ DOMAIN delta \subseteq {"role", "content", "tool_calls"}
          /\ Has(delta, "content") => delta.content \notin ThinkingTexts
          /\ Has(delta, "tool_calls") => delta.tool_calls[1].function.arguments \notin Signatures

C13_SignedThinkingThenText ==
    /\ Drained
    /\ \E k \in 1..Len(events) :
          /\ IsDelta(events[k], "signature_delta")
          /\ IsStart(events[k + 2], "text")
    /\ Len(EmittedChunks) = 3

\* The number of tool_use blocks started by the first k events.
ToolStartsUpTo(k) == Cardinality({j \in 1..k : IsStart(events[j], "tool_use")})

RECURSIVE Join(_)
Join(strings) == IF strings = <<>> THEN "" ELSE Head(strings) \o Join(Tail(strings))

\* The partial_json values converted so far for the n-th tool call (n = 1, 2, ...).
PartialJsonOf(n) ==
    LET at == SelectSeq([k \in 1..Len(converted) |-> k],
                        LAMBDA k : IsDelta(events[k], "input_json_delta") /\ ToolStartsUpTo(k) = n)
    IN  [i \in 1..Len(at) |-> events[at[i]].delta.partial_json]

\* C14: the chunk of the k-th tool_use start (k = 0, 1, ...) has tool_calls
\* index k with the block's id and name and empty arguments, whatever the
\* block's own index; the chunk of an input_json_delta has the index of the
\* last started tool call and the partial_json; state.toolCalls[k] has the
\* id and name of the k-th call and the concatenation of its partial_json
\* values.
C14_ToolCallIndices ==
    /\ \A k \in 1..Len(converted) :
          /\ IsStart(events[k], "tool_use") =>
                /\ Len(converted[k]) = 1
                /\ converted[k][1].choices[1].delta =
                      [tool_calls |-> <<[index |-> ToolStartsUpTo(k) - 1,
                                         id |-> events[k].content_block.id,
                                         type |-> "function",
                                         function |-> [name |-> events[k].content_block.name,
                                                       arguments |-> ""]]>>]
          /\ IsDelta(events[k], "input_json_delta") =>
                /\ Len(converted[k]) = 1
                /\ converted[k][1].choices[1].delta =
                      [tool_calls |-> <<[index |-> ToolStartsUpTo(k) - 1,
                                         function |-> [arguments |-> events[k].delta.partial_json]]>>]
    /\ LET calls == IF Has(state, "toolCalls") THEN state.toolCalls ELSE <<>> IN
          /\ Len(calls) = ToolStartsUpTo(Len(converted))
          /\ \A n \in 1..Len(calls) : calls[n].arguments = Join(PartialJsonOf(n))
          /\ \A k \in 1..Len(converted) :
                IsStart(events[k], "tool_use") =>
                   /\ calls[ToolStartsUpTo(k)].id = events[k].content_block.id
                   /\ calls[ToolStartsUpTo(k)].name = events[k].content_block.name

C14_TwoCallsAfterText ==
    /\ Drained
    /\ IsStart(events[2], "text")
    /\ Has(state, "toolCalls")
    /\ Len(state.toolCalls) = 2
    /\ state.toolCalls[1].arguments = "{\"city\":\"Rome\"}"
    /\ state.toolCalls[2].arguments = "{}"
    /\ \E k \in 1..Len(events) : IsStart(events[k], "tool_use") /\ events[k].index = 2

\* C15 as stated: every object the converter has returned carries the id and
\* the system_fingerprint of the state object.
C15_EveryChunkSameId ==
    \A k \in 1..Len(EmittedChunks) :
       /\ Has(EmittedChunks[k], "id") /\ EmittedChunks[k].id = state.id
       /\ Has(EmittedChunks[k], "system_fingerprint")
       /\ EmittedChunks[k].system_fingerprint = state.fingerprint

IdAndFingerprintOfState ==
    /\ converted # <<>> => Has(state, "id") /\ Has(state, "fingerprint")
    /\ \A k \in 1..Len(EmittedChunks) :
          IF Has(EmittedChunks[k], "object")
          THEN /\ EmittedChunks[k].id = state.id
               /\ EmittedChunks[k].system_fingerprint = state.fingerprint
          ELSE DOMAIN EmittedChunks[k] = {"error"}

\* C15, amended: the first call gives the state object an id and a
\* fingerprint, also when it returns no chunk; no later call changes them;
\* every chat.completion.chunk carries them; the object returned for an
\* error event carries neither.
C15_IdAndFingerprintFixed ==
    /\ []IdAndFingerprintOfState
    /\ [][converted # <<>> => (state'.id = state.id /\ state'.fingerprint = state.fingerprint)]_vars

C15_ChunksAfterSilentFirstEvent ==
    /\ Len(converted) = 3
    /\ converted[1] = <<>>
    /\ events[2].type = "message_start"
    /\ events[3].type = "message_delta"
    /\ Len(EmittedChunks) = 2

\* C16: in whatever state the generator meets a functionCall part whose
\* sibling thoughtSignature has at least MIN_SIGNATURE_LENGTH characters, the
\* tool_use content_block_start it yields carries the upstream id (toolu_...
\* without one) and the signature, and the cache holds the signature under
\* that id; every tool_use start yielded so far with a thoughtSignature has
\* it in the cache under its id.
C16_SignatureCachedUnderToolId ==
    /\ \A part \in SignedCallParts :
          (Has(part, "thoughtSignature") /\ Len(part.thoughtSignature) >= MIN_SIGNATURE_LENGTH) =>
             LET after == FunctionCallPart(Generator, part)
                 start == after.out[Len(after.out) - 1]
             IN  /\ IsStart(start, "tool_use")
                 /\ start.content_block.id = (IF Has(part.functionCall, "id")
                                               THEN part.functionCall.id ELSE "toolu_random")
                 /\ start.content_block.thoughtSignature = part.thoughtSignature
                 /\ Get(after.signatureCache.byToolId, start.content_block.id)
                       = part.thoughtSignature
    /\ \A k \in 1..Len(events) :
          (IsStart(events[k], "tool_use") /\ Has(events[k].content_block, "thoughtSignature")) =>
             /\ Len(events[k].content_block.thoughtSignature) >= MIN_SIGNATURE_LENGTH
             /\ Get(signatureCache.byToolId, events[k].content_block.id)
                   = events[k].content_block.thoughtSignature

C16_UpstreamAndGeneratedIdCached ==
    /\ pc = "done"
    /\ Get(signatureCache.byToolId, "call_1") = LongSignature
    /\ Get(signatureCache.byToolId, "toolu_random") = LongSignature
    /\ Get(signatureCache.byToolId, "call_2") = ""
    /\ \E k \in 1..Len(events) : events[k].type = "content_block_start"
                                    /\ events[k].content_block = [type |-> "tool_use", id |-> "call_2",
                                                                  name |-> "get_weather", input |-> "{}"]

\* C17: when the read is cancelled because the client has gone, the
\* generator yields nothing more: no signature_delta, no content_block_stop,
\* no message_delta and no message_stop.
C17_CancelDropsPendingBlocks ==
    [][(~clientClosed /\ clientClosed') => events' = events]_vars

\* C18: however the reads cut the body, the events yielded so far are those
\* of the complete lines of the bytes delivered so far, handled in order one
\* line at a time, and the buffer holds the bytes after the last newline; a
\* completed stream adds the end events of that state.
C18_EventsFollowLines ==
    LET delivered == SubSeq(input, 1, Len(input) - Len(wire))
        segments == Split(delivered)
        r == ProcessTexts([counters |-> [inputTokens |-> 0, outputTokens |-> 0, cacheReadTokens |-> 0],
                           emitted |-> FALSE,
                           g |-> [blockIndex |-> 0, currentBlockType |-> Null,
                                  currentThinkingSignature |-> "", stopReason |-> Null,
                                  signatureCache |-> EmptyCache, out |-> <<>>],
                           parts |-> 0, finishLog |-> <<>>, promptSeen |-> 0],
                          CompleteLines(segments))
    IN  /\ buffer = segments[Len(segments)]
        /\ pc \in {"reading", "yielding"} => events = r.g.out
        /\ pc = "empty_error" => events = <<>> /\ r.g.out = <<>>
        /\ pc = "done" =>
              events = r.g.out \o EndEvents(r.g.currentBlockType, r.g.currentThinkingSignature,
                                            r.g.blockIndex, r.g.stopReason,
                                            r.counters.outputTokens, r.counters.cacheReadTokens)

C18_OneLineInTwoReads ==
    /\ pc = "done"
    /\ input = DataPrefix \o <<" ", "{", "T", "}", "\n">>
    /\ chunkCount = 2
    /\ CountOf("content_block_delta") = 1

\* The non-system messages of the request, in order.
NonSystemInput == SelectSeq(input.messages, LAMBDA m : m.role # "system")

\* C19: the converted request has one message per non-system message of the
\* input, in the same order: user and assistant keep their role, every other
\* role becomes user, and no output message has the role system.
C19_RolesPreserved ==
    pc = "converted" =>
       /\ Len(output.messages) = Len(NonSystemInput)
       /\ \A k \in 1..Len(output.messages) :
             /\ output.messages[k].role =
                   (IF NonSystemInput[k].role \in {"user", "assistant"}
                    THEN NonSystemInput[k].role ELSE "user")
             /\ output.messages[k].role # "system"
             /\ (NonSystemInput[k].role \in {"user", "assistant", "developer"}
                    /\ NonSystemInput[k].content.kind = "string")
                 => output.messages[k].content = NonSystemInput[k].content

C19_SystemBetweenToolAndUnknownRole ==
    /\ pc = "converted"
    /\ Len(input.messages) = 3
    /\ input.messages[1].role = "tool"
    /\ input.messages[2].role = "system"
    /\ input.messages[3].role = "developer"
    /\ Len(output.messages) = 2

\* The tool_use blocks of the message that came back.
ToolUsesBack ==
    IF reconverted.messages[1].content.kind = "array"
    THEN BlocksOf(reconverted.messages[1].content.items, "tool_use") ELSE <<>>

\* C20: after a response is converted and its assistant message is converted
\* back, the tool_use blocks of the result are those of the response, in
\* order: same name, same input, and the same id where the response had one.
C20_ToolUseRoundTrip ==
    pc = "reconverted" =>
       LET original == BlocksOf(input.content, "tool_use") IN
       /\ Len(ToolUsesBack) = Len(original)
       /\ \A k \in 1..Len(original) :
             /\ ToolUsesBack[k].type = "tool_use"
             /\ ToolUsesBack[k].name = original[k].name
             /\ ToolUsesBack[k].input = original[k].input
             /\ Has(original[k], "id") => ToolUsesBack[k].id = original[k].id

C20_NestedInputAndMissingId ==
    /\ pc = "reconverted"
    /\ Len(input.content) = 2
    /\ input.content[1].type = "tool_use"
    /\ input.content[1].name = "search"
    /\ ~Has(input.content[2], "id")
    /\ Len(ToolUsesBack) = 2
    /\ ToolUsesBack[1].input.members.filters.members.tags.items[2] = JsNull
    /\ ToolUsesBack[2].id = "call_f1"

\* The system messages of the request, in order.
SystemInput == SelectSeq(input.messages, LAMBDA m : m.role = "system")

\* The text of one system message: the string, or the texts of the parts.
SystemContentOf(m) ==
    IF m.content.kind = "string" THEN m.content.value
    ELSE JoinWith([k \in 1..Len(m.content.items) |-> m.content.items[k].members.text.value], "\n")

\* The contents of the system messages joined by a blank line.
SystemJoined == JoinWith([k \in 1..Len(SystemInput) |-> SystemContentOf(SystemInput[k])], "\n\n")

\* C21 as stated: whenever the request has a system message the converted
\* request has a system field and it is the joined contents; without a system
\* message the field is absent; the output messages are the non-system ones.
C21_SystemPresentWheneverSystemMessage ==
    pc = "converted" =>
       /\ Has(output, "system") <=> SystemInput # <<>>
       /\ Has(output, "system") => output.system = SystemJoined
       /\ Len(output.messages) = Len(NonSystemInput)

\* C21: the system field of the converted request is the contents of the
\* system messages, in input order, joined by a blank line, when that text is
\* not empty; the field is absent when there is no system message or the
\* joined text is empty; the output messages are the non-system messages.
C21_SystemJoinedByBlankLine ==
    pc = "converted" =>
       /\ Has(output, "system") <=> SystemJoined # ""
       /\ Has(output, "system") => output.system = SystemJoined
       /\ Len(output.messages) = Len(NonSystemInput)
       /\ \A k \in 1..Len(output.messages) : output.messages[k].content = NonSystemInput[k].content

C21_SystemAroundUser ==
    /\ pc = "converted"
    /\ Len(input.messages) = 3
    /\ input.messages[1].role = "system"
    /\ input.messages[2].role = "user"
    /\ input.messages[3].role = "system"
    /\ input.messages[3].content.kind = "array"
    /\ output.system = "Be brief." \o "\n\n" \o "a" \o "\n" \o "b"
    /\ Len(output.messages) = 1

\* The arguments strings the conversion of a message parses.
ParsedArguments(m) ==
    IF m.role = "assistant" /\ Has(m, "tool_calls") /\ Len(m.tool_calls) > 0
    THEN {m.tool_calls[k].function.arguments : k \in 1..Len(m.tool_calls)}
    ELSE IF m.role = "assistant" /\ Has(m, "function_call") THEN {m.function_call.arguments}
    ELSE {}

\* Some assistant message of the request has arguments that are a string and
\* not valid JSON.
InvalidArguments ==
    \E k \in 1..Len(input.messages) :
       \E arguments \in ParsedArguments(input.messages[k]) :
          arguments.kind = "string" /\ ~JSON_parse(arguments).ok

\* C22: a request with an assistant message whose arguments string is not
\* valid JSON fails with BadRequest(invalid_tool_arguments) and gives no
\* converted request.
C22_InvalidArgumentsBadRequest ==
    (pc = "converted" /\ InvalidArguments) =>
       /\ Has(output, "throws")
       /\ output.throws = "BadRequest(invalid_tool_arguments)"
       /\ ~Has(output, "messages")

\* Some tool or function message of the request has neither tool_call_id nor
\* name.
DanglingToolResult ==
    \E k \in 1..Len(input.messages) :
       /\ input.messages[k].role \in {"tool", "function"}
       /\ ~Has(input.messages[k], "tool_call_id")
       /\ ~Has(input.messages[k], "name")

\* The blocks of one type in an output message.
OutputBlocks(message, type) ==
    IF message.content.kind = "array" THEN BlocksOf(message.content.items, type) ELSE <<>>

\* The ids of the tool_use blocks of the output messages before the k-th.
ToolUseIdsBefore(k) ==
    UNION {{OutputBlocks(output.messages[j], "tool_use")[i].id :
               i \in 1..Len(OutputBlocks(output.messages[j], "tool_use"))} :
              j \in 1..(k - 1)}

\* C23: a request with a tool or function message that has neither
\* tool_call_id nor name fails with BadRequest(dangling_tool_result); in a
\* converted request every tool_result names the id of a tool_use block of an
\* earlier message.
C23_DanglingToolResultBadRequest ==
    pc = "converted" =>
       /\ DanglingToolResult =>
             (Has(output, "throws") /\ output.throws = "BadRequest(dangling_tool_result)")
       /\ Has(output, "messages") =>
             \A k \in 1..Len(output.messages) :
                \A i \in 1..Len(OutputBlocks(output.messages[k], "tool_result")) :
                   OutputBlocks(output.messages[k], "tool_result")[i].tool_use_id
                      \in ToolUseIdsBefore(k)

\* Two converted requests agree on a field: both lack it or both have the
\* same value.
SameField(a, b, field) ==
    /\ Has(a, field) <=> Has(b, field)
    /\ Has(a, field) => a[field] = b[field]

\* C24: tool_choice auto gives {type: auto}, required {type: any}, a named
\* function {type: tool, name}, and none gives a request without tools and
\* without tool_choice; the request in its legacy form (functions,
\* function_call) converts to the same tools and the same tool_choice.
C24_ToolChoiceMapping ==
    /\ pc \in {"converted", "compared"} =>
          LET tool_choice == input.tool_choice IN
          /\ tool_choice = Str("auto") =>
                (Has(output, "tool_choice") /\ output.tool_choice = [type |-> "auto"])
          /\ tool_choice = Str("required") =>
                (Has(output, "tool_choice") /\ output.tool_choice = [type |-> "any"])
          /\ tool_choice.kind = "object" =>
                (Has(output, "tool_choice")
                 /\ output.tool_choice = [type |-> "tool",
                                          name |-> tool_choice.members.function.name])
          /\ tool_choice = Str("none") =>
                (~Has(output, "tools") /\ ~Has(output, "tool_choice"))
    /\ pc = "compared" =>
          /\ SameField(output, reconverted, "tools")
          /\ SameField(output, reconverted, "tool_choice")

C24_NamedChoiceInBothForms ==
    /\ pc = "compared"
    /\ Len(input.tools) = 2
    /\ input.tool_choice.kind = "object"
    /\ Len(reconverted.tools) = 2
    /\ reconverted.tools[2].input_schema = Obj([type |-> Str("object")])
    /\ reconverted.tool_choice = [type |-> "tool", name |-> "get_weather"]

\* C25: max_tokens of the converted request is max_completion_tokens when the
\* request has that field, otherwise max_tokens when it has that one,
\* otherwise 4096; a present 0 counts as present.
C25_MaxTokensFirstPresent ==
    pc = "converted" =>
       output.max_tokens =
          (IF Has(input, "max_completion_tokens") THEN input.max_completion_tokens
           ELSE IF Has(input, "max_tokens") THEN input.max_tokens
           ELSE 4096)

\* The texts of the text blocks of the response, one after the other.
TextOfResponse ==
    LET texts == BlocksOf(input.content, "text")
    IN  JoinWith([k \in 1..Len(texts) |-> texts[k].text.value], "")

\* The message of the converted response.
AnswerMessage == output.choices[1].message

\* One tool_calls entry per tool_use block, in order, with the name and the
\* stringified input of the block.
ToolCallsFollowBlocks ==
    LET uses == BlocksOf(input.content, "tool_use") IN
    IF uses = <<>> THEN ~Has(AnswerMessage, "tool_calls")
    ELSE /\ Has(AnswerMessage, "tool_calls")
         /\ Len(AnswerMessage.tool_calls) = Len(uses)
         /\ \A k \in 1..Len(uses) :
               /\ AnswerMessage.tool_calls[k].type = "function"
               /\ AnswerMessage.tool_calls[k].function.name = uses[k].name
               /\ AnswerMessage.tool_calls[k].function.arguments
                     = JsonText(JSON_stringify(uses[k].input))
               /\ Has(uses[k], "id") => AnswerMessage.tool_calls[k].id = uses[k].id

\* total_tokens is the sum, the id starts with chatcmpl-, the object is
\* chat.completion.
EnvelopeOfAnswer ==
    /\ output.usage.total_tokens = output.usage.prompt_tokens + output.usage.completion_tokens
    /\ output.usage.prompt_tokens = (IF Has(input, "usage") THEN input.usage.input_tokens ELSE 0)
    /\ \E random \in RandomHex : output.id = "chatcmpl-" \o random
    /\ output.object = "chat.completion"

\* The response has blocks and all of them are tool_use blocks.
OnlyToolCalls ==
    /\ input.content # <<>>
    /\ \A k \in 1..Len(input.content) : input.content[k].type = "tool_use"

\* C26 as stated: the content is the concatenated text, and it is null exactly
\* when the response holds only tool calls.
C26_ContentNullOnlyForToolCalls ==
    pc = "responded" =>
       /\ AnswerMessage.content = JsNull <=> OnlyToolCalls
       /\ AnswerMessage.content # JsNull => AnswerMessage.content = Str(TextOfResponse)
       /\ ToolCallsFollowBlocks
       /\ EnvelopeOfAnswer

\* C26: the content of the message is the concatenation of the text blocks in
\* order, and null exactly when that text is empty; there is one tool_calls
\* entry per tool_use block, in order, with arguments JSON.stringify(input);
\* total_tokens = prompt_tokens + completion_tokens; the id starts with
\* chatcmpl- and the object is chat.completion.
C26_AnswerMessage ==
    pc = "responded" =>
       /\ AnswerMessage.role = "assistant"
       /\ AnswerMessage.content = (IF TextOfResponse # "" THEN Str(TextOfResponse) ELSE JsNull)
       /\ ToolCallsFollowBlocks
       /\ EnvelopeOfAnswer

C26_TwoTextsConcatenated ==
    /\ pc = "responded"
    /\ Len(input.content) = 2
    /\ input.content[1].type = "text"
    /\ input.content[2].type = "text"
    /\ AnswerMessage.content = Str("Let me check.")
    /\ Has(input, "usage")
    /\ output.usage.total_tokens = MaxTokens + 1

\* The signature of minimum length that the thought part with this text
\* carried, or "" when it carried none.
ReceivedSignature(text) ==
    LET part == CHOOSE p \in SignatureThoughts : p.text = text
    IN  IF Has(part, "thoughtSignature") /\ Len(part.thoughtSignature) >= MIN_SIGNATURE_LENGTH
        THEN part.thoughtSignature ELSE ""

\* The position of the content_block_start of the block that event k is in.
StartOfBlock(k) ==
    CHOOSE i \in 1..k : /\ events[i].type = "content_block_start"
                        /\ \A m \in (i + 1)..k : events[m].type # "content_block_start"

\* The positions from i to j of the thinking deltas that brought a signature.
SignedDeltas(i, j) ==
    {m \in i..j : /\ IsDelta(events[m], "thinking_delta")
                  /\ ReceivedSignature(events[m].delta.thinking) # ""}

LastOf(positions) == CHOOSE m \in positions : \A n \in positions : n <= m

\* C27: a signature_delta stands only in a thinking block, immediately before
\* the content_block_stop of that block, and carries the last signature of
\* minimum length that the block received; a thinking block that received
\* such a signature and has ended has exactly one signature_delta; so no
\* block carries the signature of an earlier one.
C27_SignatureFlushedOnceAtBlockEnd ==
    /\ \A k \in 1..Len(events) :
          IsDelta(events[k], "signature_delta") =>
             LET i == StartOfBlock(k) IN
             /\ IsStart(events[i], "thinking")
             /\ k < Len(events)
             /\ events[k + 1] = BlockStop(events[k].index)
             /\ SignedDeltas(i, k) # {}
             /\ events[k].delta.signature
                   = ReceivedSignature(events[LastOf(SignedDeltas(i, k))].delta.thinking)
             /\ \A m \in i..(k - 1) : ~IsDelta(events[m], "signature_delta")
    /\ \A k \in 2..Len(events) :
          (/\ events[k].type = "content_block_stop"
           /\ IsStart(events[StartOfBlock(k - 1)], "thinking")
           /\ SignedDeltas(StartOfBlock(k - 1), k) # {})
          => IsDelta(events[k - 1], "signature_delta")

C27_TwoSignedThinkingBlocks ==
    /\ pc = "done"
    /\ Cardinality({k \in 1..Len(events) : IsDelta(events[k], "signature_delta")}) = 1
    /\ Cardinality({k \in 1..Len(events) : IsStart(events[k], "thinking")}) = 2
    /\ \E k \in 1..Len(events) :
          /\ IsDelta(events[k], "signature_delta")
          /\ events[k].index = 0
          /\ events[k].delta.signature = OtherSignature

\* C28: no signature shorter than MIN_SIGNATURE_LENGTH is in the signature
\* cache, under a tool-use id or under a model family, none is attached to a
\* tool_use content_block_start and none is in a signature_delta.
C28_ShortSignatureNeverUsed ==
    /\ \A k \in 1..Len(signatureCache.byToolId) :
          Len(signatureCache.byToolId[k].signature) >= MIN_SIGNATURE_LENGTH
    /\ \A k \in 1..Len(signatureCache.byModelFamily) :
          Len(signatureCache.byModelFamily[k].signature) >= MIN_SIGNATURE_LENGTH
    /\ \A k \in 1..Len(events) :
          /\ (IsStart(events[k], "tool_use") /\ Has(events[k].content_block, "thoughtSignature"))
             => Len(events[k].content_block.thoughtSignature) >= MIN_SIGNATURE_LENGTH
          /\ IsDelta(events[k], "signature_delta")
             => Len(events[k].delta.signature) >= MIN_SIGNATURE_LENGTH

C28_SevenCharactersIgnored ==
    /\ pc = "done"
    /\ \E k \in 1..Len(events) :
          IsDelta(events[k], "thinking_delta") /\ events[k].delta.thinking = <<"7">>
    /\ \E k \in 1..Len(events) :
          /\ IsStart(events[k], "tool_use")
          /\ events[k].content_block.id = "call_7"
          /\ ~Has(events[k].content_block, "thoughtSignature")
    /\ \A k \in 1..Len(events) : ~IsDelta(events[k], "signature_delta")
    /\ signatureCache = EmptyCache

\* C29: from the functionCall part on stopReason is tool_use, whatever
\* finishReason was recorded before it, and no later step changes it; the
\* message_delta of the completed stream reports tool_use.
C29_ToolUseSticks ==
    /\ [](ToolSeen => stopReason = "tool_use")
    /\ []((pc = "done" /\ ToolSeen) => ReportedStopReason = "tool_use")
    /\ [][stopReason = "tool_use" => stopReason' = "tool_use"]_vars

\* STOP was recorded with the first line; the call came with the second,
\* which carried MAX_TOKENS.
C29_CallAfterRecordedStop ==
    /\ pc = "yielding"
    /\ chunkCount = 2
    /\ partCount = 2
    /\ finishLog = <<"STOP", "MAX_TOKENS">>
    /\ \E i, k \in 1..Len(events) :
          i < k /\ IsStart(events[i], "text") /\ IsStart(events[k], "tool_use")
    /\ stopReason = "tool_use"

\* C30: a line of blank text parts yields no content block event (at most the
\* message_start of a stream that had not started) and leaves blockIndex,
\* currentBlockType, currentThinkingSignature and stopReason as they were.
C30_BlankTextChangesNothing ==
    [][ReadBlank =>
          /\ Len(events') >= Len(events)
          /\ SubSeq(events', 1, Len(events)) = events
          /\ \A k \in (Len(events) + 1)..Len(events') : events'[k].type = "message_start"
          /\ blockIndex' = blockIndex
          /\ currentBlockType' = currentBlockType
          /\ currentThinkingSignature' = currentThinkingSignature
          /\ stopReason' = stopReason]_vars

\* Two parts have arrived, one of them blank, and the thinking block of the
\* other is open with its signature pending.
C30_BlankBesideOpenThinking ==
    /\ pc = "reading"
    /\ chunkCount = 2
    /\ partCount = 2
    /\ Len(events) = 3
    /\ IsDelta(events[3], "thinking_delta")
    /\ currentBlockType = "thinking"
    /\ currentThinkingSignature = LongSignature

\* The events a step has added.
NewEvents == SubSeq(events', Len(events) + 1, Len(events'))

\* The JSON text of the args of the functionCall part with this id.
ArgsOfCall(id) ==
    LET part == CHOOSE p \in CallParts : p.functionCall.id = id
    IN  IF Has(part.functionCall, "args") THEN part.functionCall.args ELSE "{}"

\* C31: a line with one functionCall part, with or without a text field,
\* closes the open block, if any, and then yields one tool_use
\* content_block_start with id, name and input {} followed by one
\* input_json_delta with the JSON text of the args.
C31_FunctionCallOpensToolUse ==
    [][ReadCall =>
          LET new == NewEvents
              n == Len(new)
          IN  /\ n >= 2
              /\ IsStart(new[n - 1], "tool_use")
              /\ new[n - 1].content_block.id \in {p.functionCall.id : p \in CallParts}
              /\ new[n - 1].content_block.input = "{}"
              /\ IsDelta(new[n], "input_json_delta")
              /\ new[n].delta.partial_json = ArgsOfCall(new[n - 1].content_block.id)
              /\ Cardinality({k \in 1..n : IsStart(new[k], "tool_use")}) = 1
              /\ Cardinality({k \in 1..n : IsDelta(new[k], "input_json_delta")}) = 1
              /\ currentBlockType # Null => (n >= 3 /\ new[n - 2] = BlockStop(blockIndex))]_vars

\* The data line of WireLines whose JSON text is cut, without its newline.
CutLine == DataPrefix \o <<"{", "T">>

\* Bodies of complete lines: the three documents and the cut line.
CutBodies ==
    {Flatten(lines) :
       lines \in SeqsUpTo({CutLine \o <<"\n">>,
                           DataPrefix \o <<" ", "{", "T", "}", "\n">>,
                           DataPrefix \o <<"{", "H", "}", "\n">>,
                           DataPrefix \o <<"{", "U", "}", "\n">>}, MaxLines)}

InitCut ==
    /\ pc = "reading"
    /\ events = <<>>
    /\ hasEmittedStart = FALSE
    /\ blockIndex = 0
    /\ currentBlockType = Null
    /\ currentThinkingSignature = ""
    /\ inputTokens = 0
    /\ outputTokens = 0
    /\ cacheReadTokens = 0
    /\ stopReason = Null
    /\ now = 0
    /\ lastDataTime = 0
    /\ chunkCount = 0
    /\ warningLogged = FALSE
    /\ readerCancelled = FALSE
    /\ partCount = 0
    /\ finishLog = <<>>
    /\ promptSeen = 0
    /\ lastArrival = 0
    /\ signatureCache = EmptyCache
    /\ clientClosed = FALSE
    /\ buffer = <<>>
    /\ input \in CutBodies
    /\ wire = input
    /\ state = EmptyObject
    /\ converted = <<>>
    /\ output = Null
    /\ reconverted = Null
    /\ FirstRead
    /\ NoTunnel

SpecCut == InitCut /\ [][NextWire]_vars

\* The complete lines a read has handled: only a read takes bytes off the
\* wire.
LinesOfRead ==
    CompleteLines(Split(buffer \o SubSeq(wire, 1, Len(wire) - Len(wire'))))

\* C32: a data line whose payload is not valid JSON yields no event and
\* leaves hasEmittedStart, blockIndex, currentBlockType,
\* currentThinkingSignature, the token counters and stopReason as they were;
\* the stream goes on, and the lines of the same read are handled as if the
\* line were not there.
C32_InvalidJsonLineSkipped ==
    [][Len(wire') < Len(wire) =>
          LET lines == LinesOfRead
              kept == SelectSeq(lines, LAMBDA l : l # CutLine)
              r == ProcessTexts([counters |-> [inputTokens |-> inputTokens,
                                               outputTokens |-> outputTokens,
                                               cacheReadTokens |-> cacheReadTokens],
                                 emitted |-> hasEmittedStart, g |-> Generator,
                                 parts |-> partCount, finishLog |-> finishLog,
                                 promptSeen |-> promptSeen],
                                kept)
          IN  /\ pc' \in {"reading", "yielding"}
              /\ events' = events \o r.g.out
              /\ hasEmittedStart' = r.emitted
              /\ blockIndex' = r.g.blockIndex
              /\ currentBlockType' = r.g.currentBlockType
              /\ currentThinkingSignature' = r.g.currentThinkingSignature
              /\ stopReason' = r.g.stopReason
              /\ inputTokens' = r.counters.inputTokens
              /\ outputTokens' = r.counters.outputTokens
              /\ cacheReadTokens' = r.counters.cacheReadTokens
              /\ (lines # <<>> /\ kept = <<>>) =>
                    /\ events' = events
                    /\ UNCHANGED <<hasEmittedStart, blockIndex, currentBlockType,
                                   currentThinkingSignature, inputTokens, outputTokens,
                                   cacheReadTokens, stopReason>>]_vars

\* The body was a cut data line and then a text line: the stream has
\* completed with the text of the second line.
C32_TextAfterInvalidLine ==
    /\ pc = "done"
    /\ input = CutLine \o <<"\n">> \o DataPrefix \o <<" ", "{", "T", "}", "\n">>
    /\ CountOf("content_block_delta") = 1
    /\ CountOf("message_stop") = 1

\* C33: when the stream has ended, every data line of the body has been
\* translated, the last line without a newline included: the events are
\* those of all the lines of the body, handled in order.
C33_EveryPayloadTranslated ==
    pc \in {"done", "empty_error"} =>
       LET r == ProcessTexts([counters |-> [inputTokens |-> 0, outputTokens |-> 0,
                                            cacheReadTokens |-> 0],
                              emitted |-> FALSE,
                              g |-> [blockIndex |-> 0, currentBlockType |-> Null,
                                     currentThinkingSignature |-> "", stopReason |-> Null,
                                     signatureCache |-> EmptyCache, out |-> <<>>],
                              parts |-> 0, finishLog |-> <<>>, promptSeen |-> 0],
                             Split(input))
       IN  /\ r.g.out # <<>> => pc = "done"
           /\ pc = "done" =>
                 events = r.g.out \o EndEvents(r.g.currentBlockType, r.g.currentThinkingSignature,
                                               r.g.blockIndex, r.g.stopReason,
                                               r.counters.outputTokens, r.counters.cacheReadTokens)

\* C34: a stream that has completed with message_stop has at least one
\* content_block_start, after message_start and before message_delta.
C34_CompletedStreamHasBlock ==
    pc = "done" =>
       \E k \in 1..Len(events) :
          /\ events[k].type = "content_block_start"
          /\ \E i \in 1..(k - 1) : events[i].type = "message_start"
          /\ \E j \in (k + 1)..Len(events) : events[j].type = "message_delta"

\* C35: the input_tokens of message_start is never negative, whatever
\* usageMetadata the lines up to the start of the message have carried.
C35_InputTokensNotNegative ==
    hasEmittedStart =>
       /\ events[1].type = "message_start"
       /\ events[1].message.usage.input_tokens >= 0

\* C36: when a completed stream has been converted, the chunk with the
\* finish_reason has a usage whose prompt_tokens is the input_tokens of the
\* stream's message_start, whose completion_tokens is the candidatesTokenCount
\* retained from the upstream, and whose total_tokens is their sum.
C36_FinalChunkUsage ==
    Drained =>
       \E k \in 1..Len(EmittedChunks) :
          LET chunk == EmittedChunks[k]
          IN  /\ chunk.choices[1].finish_reason # Null
              /\ Has(chunk, "usage")
              /\ chunk.usage.prompt_tokens = events[1].message.usage.input_tokens
              /\ chunk.usage.completion_tokens = outputTokens
              /\ chunk.usage.total_tokens =
                    chunk.usage.prompt_tokens + chunk.usage.completion_tokens

MaxCalls == 2

\* if (attempts > 30)
MAX_ATTEMPTS == 30

HttpUrl == <<"http://", "t.ngrok.io">>

HttpsUrl == <<"https://", "t.ngrok.io">>

NoAnswer == [ok |-> FALSE, tunnels |-> <<>>]

\* What fetch('http://localhost:4040/api/tunnels') may give: it throws, or
\* an ngrok that is running answers with the tunnels it has.
ApiAnswers(serving) ==
    {NoAnswer} \cup
    (IF serving
     THEN {[ok |-> TRUE, tunnels |-> t] :
             t \in {<<>>, <<[public_url |-> HttpUrl]>>,
                    <<[public_url |-> HttpUrl], [public_url |-> HttpsUrl]>>}}
     ELSE {})

\* httpsTunnel?.public_url || data.tunnels[0].public_url
PublicUrlOf(tunnels) ==
    LET https == SelectSeq(tunnels, LAMBDA t : Head(t.public_url) = "https://")
    IN  IF https # <<>> THEN https[1].public_url ELSE tunnels[1].public_url

\* resolve(url): only a pending promise settles.
Resolve(call, url) ==
    IF call.promise = "pending" THEN [call EXCEPT !.promise = "resolved", !.value = url]
    ELSE call

\* reject(error)
Reject(call, reason) ==
    IF call.promise = "pending" THEN [call EXCEPT !.promise = "rejected", !.reason = reason]
    ELSE call

NewCall ==
    [phase |-> "checking", attempts |-> 0, promise |-> "pending", value |-> NoUrl,
     reason |-> "", answer |-> NoAnswer, child |-> "none"]

getTunnelUrl == currentTunnelUrl

\* Everything but the tunnel manager.
proxyVars == <<pc, streamVars, input, output, reconverted>>

\* startTunnel is called: it returns the URL it has, or goes on to its checks.
StartTunnel ==
    /\ Len(tunnelCalls) < MaxCalls
    /\ tunnelCalls' =
          Append(tunnelCalls,
                 IF currentTunnelUrl # NoUrl
                 THEN [NewCall EXCEPT !.phase = "returned", !.promise = "resolved",
                                      !.value = currentTunnelUrl]
                 ELSE NewCall)
    /\ UNCHANGED <<ngrokProcess, currentTunnelUrl, proxyVars>>

\* isNgrokInstalled or isNgrokConfigured says no: startTunnel throws.
ChecksFail(k) ==
    /\ tunnelCalls[k].phase = "checking"
    /\ \E reason \in {"ngrok is not installed", "NGROK_NOT_CONFIGURED"} :
         tunnelCalls' = [tunnelCalls EXCEPT ![k] = Reject([@ EXCEPT !.phase = "threw"], reason)]
    /\ UNCHANGED <<ngrokProcess, currentTunnelUrl, proxyVars>>

\* Both checks pass: the child is spawned, its handlers are set and the
\* first poll is scheduled.
Spawn(k) ==
    /\ tunnelCalls[k].phase = "checking"
    /\ ngrokProcess' = k
    /\ tunnelCalls' = [tunnelCalls EXCEPT ![k] = [@ EXCEPT !.phase = "timer", !.child = "alive"]]
    /\ UNCHANGED <<currentTunnelUrl, proxyVars>>

\* An ngrok child that has not exited answers on port 4040.
Serving == \E j \in 1..Len(tunnelCalls) : tunnelCalls[j].child \in {"alive", "killed"}

\* The poll timer fires: pollForUrl(attempts) gives up or sends its fetch.
PollFetch(k) ==
    /\ tunnelCalls[k].phase = "timer"
    /\ IF tunnelCalls[k].attempts > MAX_ATTEMPTS
       THEN tunnelCalls' = [tunnelCalls EXCEPT
                              ![k] = Reject([@ EXCEPT !.phase = "stopped"],
                                            "Timeout waiting for ngrok tunnel")]
       ELSE \E answer \in ApiAnswers(Serving) :
              tunnelCalls' = [tunnelCalls EXCEPT
                                ![k] = [@ EXCEPT !.phase = "fetching", !.answer = answer]]
    /\ UNCHANGED <<ngrokProcess, currentTunnelUrl, proxyVars>>

\* The fetch of a poll settles: the URL is stored and the promise resolved,
\* or the next poll is scheduled.
PollResponse(k) ==
    /\ tunnelCalls[k].phase = "fetching"
    /\ LET call == tunnelCalls[k]
           tunnels == call.answer.tunnels
       IN  IF call.answer.ok /\ Len(tunnels) > 0
           THEN /\ currentTunnelUrl' = PublicUrlOf(tunnels)
                /\ tunnelCalls' =
                      [tunnelCalls EXCEPT
                         ![k] = Resolve([call EXCEPT !.phase = "stopped", !.answer = NoAnswer],
                                        PublicUrlOf(tunnels))]
           ELSE /\ currentTunnelUrl' = currentTunnelUrl
                /\ tunnelCalls' =
                      [tunnelCalls EXCEPT
                         ![k] = [call EXCEPT !.phase = "timer", !.attempts = @ + 1,
                                             !.answer = NoAnswer]]
    /\ UNCHANGED <<ngrokProcess, proxyVars>>

\* ngrokProcess.on('error')
ProcessError(k) ==
    /\ tunnelCalls[k].child = "alive"
    /\ tunnelCalls' = [tunnelCalls EXCEPT ![k] = Reject([@ EXCEPT !.child = "failed"], "error")]
    /\ UNCHANGED <<ngrokProcess, currentTunnelUrl, proxyVars>>

\* ngrokProcess.on('exit')
ProcessExit(k) ==
    /\ tunnelCalls[k].child \in {"alive", "killed"}
    /\ tunnelCalls' = [tunnelCalls EXCEPT ![k] = [@ EXCEPT !.child = "exited"]]
    /\ currentTunnelUrl' = NoUrl
    /\ ngrokProcess' = NoProcess
    /\ UNCHANGED proxyVars

\* stopTunnel is called.
StopTunnel ==
    /\ IF ngrokProcess # NoProcess
       THEN /\ tunnelCalls' =
                  [tunnelCalls EXCEPT
                     ![ngrokProcess] = [@ EXCEPT !.child = IF @ = "alive" THEN "killed" ELSE @]]
            /\ ngrokProcess' = NoProcess
            /\ currentTunnelUrl' = NoUrl
       ELSE UNCHANGED tunnelVars
    /\ UNCHANGED proxyVars

InitTunnel ==
    /\ IdleStream
    /\ pc = "tunnel"
    /\ input = Null
    /\ output = Null
    /\ reconverted = Null

NextTunnel ==
    \/ StartTunnel
    \/ StopTunnel
    \/ \E k \in 1..Len(tunnelCalls) : ChecksFail(k)
    \/ \E k \in 1..Len(tunnelCalls) : Spawn(k)
    \/ \E k \in 1..Len(tunnelCalls) : PollFetch(k)
    \/ \E k \in 1..Len(tunnelCalls) : PollResponse(k)
    \/ \E k \in 1..Len(tunnelCalls) : ProcessError(k)
    \/ \E k \in 1..Len(tunnelCalls) : ProcessExit(k)

SpecTunnel == InitTunnel /\ [][NextTunnel]_vars

\* C38: a startTunnel call that polls settles once: a settled promise stays
\* as it is; a poll that reports a tunnel resolves the pending promise with
\* the stored URL at once; no fetch is sent with attempts above 30, and the
\* poll with attempts above 30 rejects with the timeout; and once the
\* promise is settled, also by a process error, no further poll is sent.
C38_SettlesOnceAndStopsPolling ==
    [][\A k \in 1..Len(tunnelCalls) :
          LET before == tunnelCalls[k]
              after == tunnelCalls'[k]
              sends == before.phase = "timer" /\ after.phase = "fetching"
          IN  /\ before.promise # "pending" =>
                    /\ after.promise = before.promise
                    /\ after.value = before.value
                    /\ after.reason = before.reason
                    /\ ~sends
              /\ (before.promise = "pending" /\ before.phase = "fetching"
                  /\ after.phase # "fetching"
                  /\ before.answer.ok /\ before.answer.tunnels # <<>>) =>
                    /\ after.promise = "resolved"
                    /\ after.value = currentTunnelUrl'
                    /\ after.value # NoUrl
              /\ sends => before.attempts <= MAX_ATTEMPTS
              /\ (before.promise = "pending" /\ before.phase = "timer"
                  /\ after.phase = "stopped") =>
                    /\ after.promise = "rejected"
                    /\ after.reason = "Timeout waiting for ngrok tunnel"
                    /\ before.attempts = MAX_ATTEMPTS + 1]_vars

\* C39: at most one spawned child is alive at any time, and ngrokProcess
\* refers to it; a startTunnel call made while another is polling spawns
\* nothing.
C39_OneChildAlive ==
    LET alive == {k \in 1..Len(tunnelCalls) : tunnelCalls[k].child = "alive"}
    IN  /\ Cardinality(alive) <= 1
        /\ \A k \in alive : ngrokProcess = k

\* C40: whenever getTunnelUrl returns a URL, ngrokProcess is set; and the
\* URL, once null, becomes a URL again only by a poll of a call whose child
\* is alive and is the one ngrokProcess refers to.
C40_UrlOnlyWithProcess ==
    [][/\ getTunnelUrl' # NoUrl => ngrokProcess' # NoProcess
       /\ (getTunnelUrl = NoUrl /\ getTunnelUrl' # NoUrl) =>
             \E k \in 1..Len(tunnelCalls) :
                /\ tunnelCalls[k].phase = "fetching"
                /\ tunnelCalls'[k].phase = "stopped"
                /\ tunnelCalls[k].child = "alive"
                /\ ngrokProcess = k]_vars
====
